---- MODULE Spec2Model ----
(***************************************************************************)
(* Model of the map decoder / walkability / pathfinding engine of          *)
(* src/dump.py: build_quadrant_walkability, the special-quadrant scan of   *)
(* dump_minimal_map, _bfs_find_path and the tail of find_path.             *)
(*                                                                         *)
(* Conventions.  Python lists and bytes are TLA+ sequences, so the Python  *)
(* index i is the TLA+ index i+1.  A coordinate (x, y) is the tuple        *)
(* <<x, y>>.  A Python str is the sequence of its characters, each a       *)
(* one-character TLA+ string.  None is the value None below.               *)
(***************************************************************************)
EXTENDS Integers, Sequences, FiniteSets, TLC

VARIABLES
    pc,             \* position in the call being modelled
    width,          \* map width in blocks            (find_path / dump_minimal_map)
    height,         \* map height in blocks
    map_data,       \* tile map: sequence of block indices
    blocks,         \* loaded block table: sequence of subtile-ID sequences
    walkable_tiles, \* collision set
    grid,           \* walkability grid (grid / grid_data in the source)
    walkable_special_quadrants, \* set built by dump_minimal_map
    start,          \* _bfs_find_path argument
    end,            \* _bfs_find_path argument
    queue,          \* deque of _bfs_find_path
    prev,           \* predecessor dict of _bfs_find_path
    path_found,     \* flag of _bfs_find_path
    cur,            \* reconstruction cursor of _bfs_find_path
    path_actions,   \* list built by the reconstruction loop
    path_coords,    \* list built by the reconstruction loop
    result,         \* value returned by _bfs_find_path
    out,            \* value returned by find_path
    rom_path,       \* what open(rom_path, 'rb').read() gives: the image or an error
    rom,            \* ROM image handed to the loaders
    map_id,         \* map ID handed to load_map
    impl,           \* whose loaders run: those of rom.py or those of dump.py
    tileset_id,     \* first value returned by load_map
    tileset_header, \* tuple returned by load_tileset_header
    err,            \* exception raised by a loader, None while there is none
    call,           \* a call of one of the pure helpers: its name and arguments
    ret,            \* what that call returned or raised
    img             \* cell fills of the image of dump_minimal_map

vars == <<pc, width, height, map_data, blocks, walkable_tiles, grid,
          walkable_special_quadrants, start, end, queue, prev, path_found,
          cur, path_actions, path_coords, result, out, rom_path, rom, map_id,
          impl, tileset_id, tileset_header, err, call, ret, img>>

mapVars == <<width, height, map_data, blocks, walkable_tiles>>
bfsVars == <<queue, prev, path_found, cur, path_actions, path_coords>>
romVars == <<rom_path, rom, map_id, impl, tileset_id, tileset_header, err>>
fnVars == <<call, ret>>

(***************************************************************************)
(* Bounds of the model.                                                    *)
(***************************************************************************)
MaxRows == 2      \* rows of a grid handed directly to _bfs_find_path
MaxCols == 3      \* columns of such a grid
MaxDiff == 2      \* such a grid has at most MaxDiff blocked cells, or at
                  \* most MaxDiff walkable cells
MaxWidth == 2     \* map width in blocks
MaxHeight == 2    \* map height in blocks
MaxBidx == 1      \* largest block index a tile map refers to

None == <<"None">>
NotStarted == <<"NotStarted">>          \* a variable not assigned yet
Raised(e) == <<"Raised", e>>            \* the call ended by raising e
IsRaised(v) == Len(v) = 2 /\ v[1] = "Raised"

(***************************************************************************)
(* Python helpers.                                                         *)
(***************************************************************************)
\* list.reverse()
RECURSIVE Reverse(_)
Reverse(s) == IF s = <<>> THEN <<>> ELSE Append(Reverse(Tail(s)), Head(s))

\* Python truth value of what _bfs_find_path returns: None and empty
\* containers are false, a non-empty tuple is true.
Falsy(v) == v = None \/ v = <<>>

\* sep.join(parts), every part a str
RECURSIVE StrJoin(_, _)
StrJoin(sep, parts) ==
    IF parts = <<>> THEN <<>>
    ELSE IF Len(parts) = 1 THEN Head(parts)
    ELSE Head(parts) \o sep \o StrJoin(sep, Tail(parts))

\* ''.join(path_actions): each action is a one-character str
JoinActions(acts) == StrJoin(<<>>, [i \in 1..Len(acts) |-> <<acts[i]>>])

(***************************************************************************)
(* ACTION_RE = ^[LRUDABS](?:;[LRUDABS])*(?:;)?$  (llmdriver.py:25)         *)
(***************************************************************************)
ActionLetters == {"L", "R", "U", "D", "A", "B", "S"}

\* the (?:;[LRUDABS])* part, then the optional ';', then the end of the string
RECURSIVE ReTail(_)
ReTail(s) ==
    \/ s = <<>>
    \/ s = <<";">>
    \/ /\ Len(s) >= 2
       /\ s[1] = ";"
       /\ s[2] \in ActionLetters
       /\ ReTail(SubSeq(s, 3, Len(s)))

ACTION_RE(s) == /\ s # None
                /\ Len(s) >= 1
                /\ s[1] \in ActionLetters
                /\ ReTail(Tail(s))

(***************************************************************************)
(* SPECIAL_FEATURE_TILE_IDS (dump.py:9-27)                                 *)
(***************************************************************************)
SPECIAL_FEATURE_TILE_IDS ==
    {4, 5, 12, 13, 20, 21, 28, 29, 100, 101, 108, 109,      \* doors
     102, 103, 110, 111, 123,
     90, 91, 92, 93,                                        \* mats
     48, 49, 50, 51, 58, 59,                                \* stairs
     112, 113, 120, 121,                                    \* ladders
     14, 15,                                                \* cave entrances
     130, 131,                                              \* warp tiles
     10, 11, 26, 27}                                        \* stairs at (7,1)

(***************************************************************************)
(* build_quadrant_walkability (dump.py:126-146)                            *)
(***************************************************************************)
\* Variant of CollisionTileIndex that samples the top-left subtile.
CollisionTileIndex_TopLeft(qr, qc) == (qr * 2 + 0) * 4 + (qc * 2 + 0)

\* collision_tile_index_in_block (line 140)
CollisionTileIndex(qr, qc) == (qr * 2 + 1) * 4 + (qc * 2 + 0)

\* Lines 140-145 for one quadrant (qr, qc) of block cell (bx, by): the grid
\* after the assignment, or the grid unchanged when a guard skips it.
SetQuadrant(g, rows, cols, subtiles, wt, bx, by, qr, qc) ==
    LET idx == CollisionTileIndex(qr, qc)
        gy  == by * 2 + qr
        gx  == bx * 2 + qc
    IN IF idx >= Len(subtiles) THEN g
       ELSE IF 0 <= gy /\ gy < rows /\ 0 <= gx /\ gx < cols
            THEN [g EXCEPT ![gy + 1][gx + 1] = (subtiles[idx + 1] \in wt)]
            ELSE g

\* Lines 132-145 for block cell (bx, by).
SetBlockCell(g, w, rows, cols, md, bl, wt, bx, by) ==
    LET map_idx == by * w + bx
    IN IF map_idx >= Len(md) THEN g
       ELSE LET bidx == md[map_idx + 1]
            IN IF bidx >= Len(bl) THEN g
               ELSE LET subtiles == bl[bidx + 1]
                    IN IF Len(subtiles) < 16 THEN g
                       ELSE SetQuadrant(
                              SetQuadrant(
                                SetQuadrant(
                                  SetQuadrant(g, rows, cols, subtiles, wt, bx, by, 0, 0),
                                  rows, cols, subtiles, wt, bx, by, 0, 1),
                                rows, cols, subtiles, wt, bx, by, 1, 0),
                              rows, cols, subtiles, wt, bx, by, 1, 1)

\* The two loops of lines 130-131, block cells k, k+1, ... in row-major order.
RECURSIVE BuildFrom(_, _, _, _, _, _, _, _, _)
BuildFrom(g, w, h, rows, cols, md, bl, wt, k) ==
    IF k >= w * h THEN g
    ELSE BuildFrom(SetBlockCell(g, w, rows, cols, md, bl, wt, k % w, k \div w),
                   w, h, rows, cols, md, bl, wt, k + 1)

\* Variant of build_quadrant_walkability whose rows have one cell per block.
build_quadrant_walkability_BlockCols(w, h, md, bl, wt) ==
    LET cols == w
        rows == h * 2
        g0   == [y \in 1..rows |-> [x \in 1..cols |-> FALSE]]
    IN BuildFrom(g0, w, h, rows, cols, md, bl, wt, 0)

build_quadrant_walkability(w, h, md, bl, wt) ==
    LET cols == w * 2
        rows == h * 2
        g0   == [y \in 1..rows |-> [x \in 1..cols |-> FALSE]]
    IN BuildFrom(g0, w, h, rows, cols, md, bl, wt, 0)

(***************************************************************************)
(* The special-quadrant scan of dump_minimal_map (dump.py:269-320)         *)
(***************************************************************************)
\* indices (lines 296-299)
QuadIndices(gqx, gqy) ==
    << (gqy * 2 + 0) * 4 + (gqx * 2 + 0), (gqy * 2 + 0) * 4 + (gqx * 2 + 1),
       (gqy * 2 + 1) * 4 + (gqx * 2 + 0), (gqy * 2 + 1) * 4 + (gqx * 2 + 1) >>

\* Variant of AllSpecial that is content with one special subtile.
AllSpecial_Any(block_definition, gqx, gqy) ==
    \E i \in 1..4 :
        LET idx == << (gqy * 2 + 0) * 4 + (gqx * 2 + 0), (gqy * 2 + 0) * 4 + (gqx * 2 + 1),
                      (gqy * 2 + 1) * 4 + (gqx * 2 + 0), (gqy * 2 + 1) * 4 + (gqx * 2 + 1) >>[i]
        IN /\ idx < Len(block_definition)
           /\ block_definition[idx + 1] \in SPECIAL_FEATURE_TILE_IDS

\* all_special after the loop of lines 308-316; an index beyond the block
\* gives None in tile_ids_in_quad and so all_special = False.
AllSpecial(block_definition, gqx, gqy) ==
    \A i \in 1..4 :
        LET idx == QuadIndices(gqx, gqy)[i]
        IN /\ idx < Len(block_definition)
           /\ block_definition[idx + 1] \in SPECIAL_FEATURE_TILE_IDS

\* Variant of AddsQuadrant that adds every all-special quadrant.
AddsQuadrant_NoWalkCheck(g, block_definition, bx, by, gqx, gqy) ==
    LET gx == bx * 2 + gqx
        gy == by * 2 + gqy
    IN /\ 0 <= gy /\ gy < Len(g) /\ 0 <= gx /\ gx < Len(g[1])
       /\ AllSpecial(block_definition, gqx, gqy)

\* Lines 289-293 and 319: whether quadrant (gqx, gqy) of block cell (bx, by)
\* is added to the set.
AddsQuadrant(g, block_definition, bx, by, gqx, gqy) ==
    LET gx == bx * 2 + gqx
        gy == by * 2 + gqy
        grid_h == Len(g)
        grid_w == Len(g[1])
    IN /\ 0 <= gy /\ gy < grid_h /\ 0 <= gx /\ gx < grid_w
       /\ AllSpecial(block_definition, gqx, gqy)
       /\ g[gy + 1][gx + 1]

\* walkable_special_quadrants after the loops of lines 274-320.
WalkableSpecialQuadrants(w, h, md, bl, g) ==
    { c \in (0..(2 * w - 1)) \X (0..(2 * h - 1)) :
        LET bx == c[1] \div 2
            by == c[2] \div 2
            map_idx == by * w + bx
        IN /\ map_idx < Len(md)
           /\ md[map_idx + 1] < Len(bl)
           /\ Len(bl[md[map_idx + 1] + 1]) >= 16
           /\ AddsQuadrant(g, bl[md[map_idx + 1] + 1], bx, by,
                           c[1] % 2, c[2] % 2) }

(***************************************************************************)
(* _bfs_find_path (dump.py:150-183)                                        *)
(***************************************************************************)
\* grid[y][x]
Cell(g, x, y) == g[y + 1][x + 1]

\* rows, cols = len(grid), len(grid[0])
Rows(g) == Len(g)
Cols(g) == Len(g[1])

InBounds(g, x, y) == 0 <= x /\ x < Cols(g) /\ 0 <= y /\ y < Rows(g)

\* Variant of dirs with the letters of Down and Up exchanged.
dirs_UpDownSwapped ==
    << <<1, 0, "R">>, <<-1, 0, "L">>, <<0, 1, "U">>, <<0, -1, "D">> >>

\* Variant of dirs without the move Up.
dirs_NoUp == << <<1, 0, "R">>, <<-1, 0, "L">>, <<0, 1, "D">> >>

\* Variant of dirs that tries Down and Up before Right and Left.
dirs_DownFirst ==
    << <<0, 1, "D">>, <<0, -1, "U">>, <<1, 0, "R">>, <<-1, 0, "L">> >>

\* dirs = [(1, 0, 'R'), (-1, 0, 'L'), (0, 1, 'D'), (0, -1, 'U')]
dirs == << <<1, 0, "R">>, <<-1, 0, "L">>, <<0, 1, "D">>, <<0, -1, "U">> >>

\* Variant of CanVisit that walks into non-walkable cells.
CanVisit_NoWalkCheck(g, pv, nx, ny) ==
    /\ 0 <= nx /\ nx < Len(g[1]) /\ 0 <= ny /\ ny < Len(g)
    /\ <<nx, ny>> \notin DOMAIN pv

\* Variant of CanVisit that does not look whether the cell was seen before.
CanVisit_NoSeenCheck(g, pv, nx, ny) ==
    /\ 0 <= nx /\ nx < Len(g[1]) /\ 0 <= ny /\ ny < Len(g)
    /\ g[ny + 1][nx + 1]

\* The condition of line 167 for the neighbour at (nx, ny).
CanVisit(g, pv, nx, ny) ==
    /\ InBounds(g, nx, ny)
    /\ Cell(g, nx, ny)
    /\ <<nx, ny>> \notin DOMAIN pv

\* Variant of Expand that puts a new cell at the front of the queue.
RECURSIVE Expand_Lifo(_, _, _, _, _)
Expand_Lifo(g, st, x, y, i) ==
    IF i > 4 THEN st
    ELSE LET d  == << <<1, 0, "R">>, <<-1, 0, "L">>, <<0, 1, "D">>, <<0, -1, "U">> >>[i]
             nx == x + d[1]
             ny == y + d[2]
         IN IF /\ 0 <= nx /\ nx < Len(g[1]) /\ 0 <= ny /\ ny < Len(g)
               /\ g[ny + 1][nx + 1]
               /\ <<nx, ny>> \notin DOMAIN st[1]
            THEN Expand_Lifo(g, << st[1] @@ (<<nx, ny>> :> <<x, y, d[3]>>),
                                   <<(<<nx, ny>>)>> \o st[2] >>, x, y, i + 1)
            ELSE Expand_Lifo(g, st, x, y, i + 1)

\* One pass of "for dx, dy, action in dirs" from direction index i on, on
\* the pair st = <<prev, queue>>; returns the pair after the pass.
RECURSIVE Expand(_, _, _, _, _)
Expand(g, st, x, y, i) ==
    IF i > Len(dirs) THEN st
    ELSE LET nx == x + dirs[i][1]
             ny == y + dirs[i][2]
             pv == st[1]
             q  == st[2]
         IN IF CanVisit(g, pv, nx, ny)
            THEN Expand(g, << pv @@ (<<nx, ny>> :> <<x, y, dirs[i][3]>>),
                              Append(q, <<nx, ny>>) >>, x, y, i + 1)
            ELSE Expand(g, st, x, y, i + 1)

\* Variant of EarlyNone that accepts a non-walkable end.
EarlyNone_NoEndCheck(g, s, e) ==
    \/ g = <<>>
    \/ g[1] = <<>>
    \/ ~(0 <= s[1] /\ s[1] < Len(g[1]) /\ 0 <= s[2] /\ s[2] < Len(g))
    \/ ~(0 <= e[1] /\ e[1] < Len(g[1]) /\ 0 <= e[2] /\ e[2] < Len(g))

\* Variant of EarlyNone that gives up on a non-walkable start as well.
EarlyNone_StartMustBeWalkable(g, s, e) ==
    \/ g = <<>>
    \/ g[1] = <<>>
    \/ ~(0 <= s[1] /\ s[1] < Len(g[1]) /\ 0 <= s[2] /\ s[2] < Len(g))
    \/ ~(0 <= e[1] /\ e[1] < Len(g[1]) /\ 0 <= e[2] /\ e[2] < Len(g))
    \/ ~g[s[2] + 1][s[1] + 1]
    \/ ~g[e[2] + 1][e[1] + 1]

\* Lines 151-157: the checks before the search.  TRUE when the call returns
\* None before the queue is created.
EarlyNone(g, s, e) ==
    \/ g = <<>>
    \/ g[1] = <<>>
    \/ ~InBounds(g, s[1], s[2])
    \/ ~InBounds(g, e[1], e[2])
    \/ ~Cell(g, e[1], e[2])

\* Variant of BfsEnter that queues start without recording it in prev.
BfsEnter_StartNotSeen ==
    /\ pc = "bfs_enter"
    /\ IF EarlyNone(grid, start, end)
       THEN /\ result' = None
            /\ pc' = "bfs_returned"
            /\ UNCHANGED bfsVars
       ELSE /\ queue' = <<start>>
            /\ prev' = <<>>
            /\ path_found' = FALSE
            /\ pc' = "bfs_loop"
            /\ UNCHANGED <<result, cur, path_actions, path_coords>>
    /\ UNCHANGED <<romVars, fnVars, img, mapVars, grid, walkable_special_quadrants,
                   start, end, out>>

\* Lines 151-161.
BfsEnter ==
    /\ pc = "bfs_enter"
    /\ IF EarlyNone(grid, start, end)
       THEN /\ result' = None
            /\ pc' = "bfs_returned"
            /\ UNCHANGED bfsVars
       ELSE /\ queue' = <<start>>
            /\ prev' = (start :> None)
            /\ path_found' = FALSE
            /\ pc' = "bfs_loop"
            /\ UNCHANGED <<result, cur, path_actions, path_coords>>
    /\ UNCHANGED <<romVars, fnVars, img, mapVars, grid, walkable_special_quadrants, start, end, out>>

\* Variant of the loop iteration that marks the dequeued cell as visited in
\* the grid itself.
BfsIterate_MarksGrid ==
    /\ pc = "bfs_loop"
    /\ queue # <<>>
    /\ LET x == Head(queue)[1]
           y == Head(queue)[2]
       IN /\ grid' = [grid EXCEPT ![y + 1][x + 1] = FALSE]
          /\ IF <<x, y>> = end
             THEN /\ path_found' = TRUE
                  /\ queue' = Tail(queue)
                  /\ cur' = end
                  /\ path_actions' = <<>>
                  /\ path_coords' = <<>>
                  /\ pc' = "reconstruct"
                  /\ UNCHANGED prev
             ELSE LET st == Expand(grid, <<prev, Tail(queue)>>, x, y, 1)
                  IN /\ prev' = st[1]
                     /\ queue' = st[2]
                     /\ pc' = "bfs_loop"
                     /\ UNCHANGED <<path_found, cur, path_actions, path_coords>>
    /\ UNCHANGED <<romVars, fnVars, img, mapVars, walkable_special_quadrants, start, end,
                   result, out>>

\* One iteration of "while queue" (lines 162-169); on the break, lines
\* 170-173 run as well.
BfsIterate ==
    /\ pc = "bfs_loop"
    /\ queue # <<>>
    /\ LET x == Head(queue)[1]
           y == Head(queue)[2]
       IN IF <<x, y>> = end
          THEN /\ path_found' = TRUE
               /\ queue' = Tail(queue)
               /\ cur' = end
               /\ path_actions' = <<>>
               /\ path_coords' = <<>>
               /\ pc' = "reconstruct"
               /\ UNCHANGED prev
          ELSE LET st == Expand(grid, <<prev, Tail(queue)>>, x, y, 1)
               IN /\ prev' = st[1]
                  /\ queue' = st[2]
                  /\ pc' = "bfs_loop"
                  /\ UNCHANGED <<path_found, cur, path_actions, path_coords>>
    /\ UNCHANGED <<romVars, fnVars, img, mapVars, grid, walkable_special_quadrants, start, end,
                   result, out>>

\* The queue ran empty: line 162 is false and line 170 returns None.
BfsExhausted ==
    /\ pc = "bfs_loop"
    /\ queue = <<>>
    /\ ~path_found
    /\ result' = None
    /\ pc' = "bfs_returned"
    /\ UNCHANGED <<romVars, fnVars, img, mapVars, grid, walkable_special_quadrants, start, end,
                   bfsVars, out>>

\* One iteration of "while prev[cur] is not None" (lines 174-178).  prev[cur]
\* raises KeyError when cur is no key of prev.
BfsReconstruct ==
    /\ pc = "reconstruct"
    /\ cur \in DOMAIN prev => prev[cur] # None
    /\ IF cur \notin DOMAIN prev
       THEN /\ result' = Raised("KeyError")
            /\ pc' = "bfs_returned"
            /\ UNCHANGED <<path_actions, path_coords, cur>>
       ELSE /\ path_actions' = Append(path_actions, prev[cur][3])
            /\ path_coords' = Append(path_coords, cur)
            /\ cur' = <<prev[cur][1], prev[cur][2]>>
            /\ UNCHANGED <<pc, result>>
    /\ UNCHANGED <<romVars, fnVars, img, mapVars, grid, walkable_special_quadrants, start, end,
                   queue, prev, path_found, out>>

\* Variant of BfsReturn that leaves start out of the coordinate path.
BfsReturn_NoStart ==
    /\ pc = "reconstruct"
    /\ cur \in DOMAIN prev
    /\ prev[cur] = None
    /\ LET coords == Reverse(path_coords)
           acts   == Reverse(path_actions)
       IN /\ path_coords' = coords
          /\ path_actions' = acts
          /\ result' = <<JoinActions(acts), coords>>
    /\ pc' = "bfs_returned"
    /\ UNCHANGED <<romVars, fnVars, img, mapVars, grid, walkable_special_quadrants, start, end,
                   queue, prev, path_found, cur, out>>

\* Lines 179-183.
BfsReturn ==
    /\ pc = "reconstruct"
    /\ cur \in DOMAIN prev
    /\ prev[cur] = None
    /\ LET coords == Reverse(Append(path_coords, start))
           acts   == Reverse(path_actions)
       IN /\ path_coords' = coords
          /\ path_actions' = acts
          /\ result' = <<JoinActions(acts), coords>>
    /\ pc' = "bfs_returned"
    /\ UNCHANGED <<romVars, fnVars, img, mapVars, grid, walkable_special_quadrants, start, end,
                   queue, prev, path_found, cur, out>>

(***************************************************************************)
(* _bfs_find_path as one operator: the value a call returns, computed by   *)
(* the same steps as the actions above.  It gives the result of a call on  *)
(* other arguments than those of the state.                                *)
(***************************************************************************)
\* The "while queue" loop (lines 162-169) on st = <<prev, queue>>:
\* <<"found", prev>> at the break, None when the queue runs empty.
RECURSIVE BfsLoop(_, _, _)
BfsLoop(g, e, st) ==
    IF st[2] = <<>> THEN None
    ELSE IF Head(st[2]) = e THEN <<"found", st[1]>>
    ELSE BfsLoop(g, e, Expand(g, <<st[1], Tail(st[2])>>,
                              Head(st[2])[1], Head(st[2])[2], 1))

\* The "while prev[cur] is not None" loop (lines 174-178): <<path_actions,
\* path_coords>> when it ends, the exception when prev has no key c.
RECURSIVE BfsTrace(_, _, _, _)
BfsTrace(pv, c, acts, coords) ==
    IF c \notin DOMAIN pv THEN Raised("KeyError")
    ELSE IF pv[c] = None THEN <<acts, coords>>
    ELSE BfsTrace(pv, <<pv[c][1], pv[c][2]>>, Append(acts, pv[c][3]),
                  Append(coords, c))

bfs_find_path(g, s, e) ==
    IF EarlyNone(g, s, e) THEN None
    ELSE LET found == BfsLoop(g, e, <<(s :> None), <<s>>>>)
         IN IF found = None THEN None
            ELSE LET t == BfsTrace(found[2], e, <<>>, <<>>)
                 IN IF IsRaised(t) THEN t
                    ELSE <<JoinActions(Reverse(t[1])), Reverse(Append(t[2], s))>>

(***************************************************************************)
(* find_path from the loaded map data on (dump.py:210-217)                 *)
(***************************************************************************)
\* Line 210.
FindPathBuild ==
    /\ pc = "fp_build"
    /\ grid' = build_quadrant_walkability(width, height, map_data, blocks,
                                          walkable_tiles)
    /\ pc' = "bfs_enter"
    /\ UNCHANGED <<romVars, fnVars, img, mapVars, walkable_special_quadrants, start, end, bfsVars,
                   result, out>>

\* ';'.join(actions) + ';'   (actions is a str: join iterates its characters)
EmitActions(actions) ==
    StrJoin(<<";">>, [i \in 1..Len(actions) |-> <<actions[i]>>]) \o <<";">>

\* Lines 211-217: an exception of line 211 is caught and gives None.
FindPathResult(res) ==
    IF IsRaised(res) THEN None
    ELSE IF Falsy(res) THEN None
    ELSE EmitActions(res[1])

FindPathReturn ==
    /\ pc = "bfs_returned"
    /\ out' = FindPathResult(result)
    /\ pc' = "done"
    /\ UNCHANGED <<romVars, fnVars, img, mapVars, grid, walkable_special_quadrants, start, end,
                   bfsVars, result>>

(***************************************************************************)
(* dump_minimal_map from the loaded map data on (dump.py:267-320)          *)
(***************************************************************************)
\* Lines 267-269.
DumpBuild ==
    /\ pc = "dmm_build"
    /\ LET g == build_quadrant_walkability(width, height, map_data, blocks,
                                           walkable_tiles)
       IN /\ grid' = g
          /\ pc' = IF g = <<>> \/ g[1] = <<>> THEN "dmm_failed" ELSE "dmm_scan"
    /\ UNCHANGED <<romVars, fnVars, img, mapVars, walkable_special_quadrants, start, end, bfsVars,
                   result, out>>

\* Lines 272-320.
DumpScan ==
    /\ pc = "dmm_scan"
    /\ walkable_special_quadrants' =
           WalkableSpecialQuadrants(width, height, map_data, blocks, grid)
    /\ pc' = "dmm_scanned"
    /\ UNCHANGED <<romVars, fnVars, img, mapVars, grid, start, end, bfsVars, result, out>>

\* Variant of CellColor with the colours of walkable and blocked cells
\* exchanged.
CellColor_Inverted(g, special, x, y) ==
    IF g[y + 1][x + 1] /\ <<x, y>> \in special THEN <<255, 165, 0>>
    ELSE IF g[y + 1][x + 1] THEN <<0, 0, 0>>
    ELSE <<255, 255, 255>>

\* Lines 345-348: the colour of the cell (x, y).
CellColor(g, special, x, y) ==
    LET walkable_color == <<255, 255, 255>>
        blocked_color == <<0, 0, 0>>
        special_color == <<255, 165, 0>>
        is_walkable == Cell(g, x, y)
        color == IF is_walkable THEN walkable_color ELSE blocked_color
    IN IF is_walkable /\ <<x, y>> \in special THEN special_color ELSE color

\* Lines 343-350: one filled rectangle of cell_size pixels per cell; img is
\* the matrix of the fills, img[y + 1][x + 1] that of the cell (x, y).
DumpFill ==
    /\ pc = "dmm_scanned"
    /\ img' = [y \in 1..Len(grid) |->
                 [x \in 1..Len(grid[1]) |->
                    CellColor(grid, walkable_special_quadrants, x - 1, y - 1)]]
    /\ pc' = "dmm_filled"
    /\ UNCHANGED <<romVars, fnVars, mapVars, grid, walkable_special_quadrants,
                   start, end, bfsVars, result, out>>

(***************************************************************************)
(* Low-level ROM helpers (rom.py:3-18, dump.py:31-46) and decode_tile      *)
(* (dump.py:109-122).  A byte buffer handed to read_u8 / read_u16, and the *)
(* ROM image, is the record [len, bytes]: len is its length and bytes maps *)
(* offsets below len to byte values; an offset below len that bytes does   *)
(* not mention holds 0x00.  A call returns Ok(v) or Raised(e).             *)
(***************************************************************************)
Ok(v) == <<"Ok", v>>
IsOk(r) == Len(r) = 2 /\ r[1] = "Ok"

\* data[i] for 0 <= i < len(data)
ByteAt(data, i) == IF i \in DOMAIN data.bytes THEN data.bytes[i] ELSE 0

\* data[a:b] for 0 <= a
Slice(data, a, b) ==
    LET stop == IF b < data.len THEN b ELSE data.len
    IN IF stop <= a THEN <<>> ELSE [k \in 1..(stop - a) |-> ByteAt(data, a + k - 1)]

\* b'\x00' * n
Zeros(n) == [k \in 1..n |-> 0]

\* a | b on naturals
RECURSIVE BitOr(_, _)
BitOr(a, b) ==
    IF a = 0 THEN b
    ELSE IF b = 0 THEN a
    ELSE (IF a % 2 = 1 \/ b % 2 = 1 THEN 1 ELSE 0) + 2 * BitOr(a \div 2, b \div 2)

\* a & b on naturals
RECURSIVE BitAnd(_, _)
BitAnd(a, b) ==
    IF a = 0 \/ b = 0 THEN 0
    ELSE (IF a % 2 = 1 /\ b % 2 = 1 THEN 1 ELSE 0) + 2 * BitAnd(a \div 2, b \div 2)

ShiftLeft(n, k) == n * (2 ^ k)          \* n << k
ShiftRight(n, k) == n \div (2 ^ k)      \* n >> k

\* Variant of read_u8 without the "offset < 0" test: a negative offset
\* indexes from the end of the buffer, as Python indexing does.
read_u8_NoNegativeTest(data, offset) ==
    IF offset >= data.len \/ offset < -data.len THEN Raised("IndexError")
    ELSE IF offset < 0 THEN Ok(ByteAt(data, data.len + offset))
    ELSE Ok(ByteAt(data, offset))

read_u8(data, offset) ==
    IF offset < 0 \/ offset >= data.len THEN Raised("IndexError")
    ELSE Ok(ByteAt(data, offset))

read_u16(data, offset) ==
    IF offset < 0 \/ offset + 1 >= data.len THEN Raised("IndexError")
    ELSE Ok(BitOr(ByteAt(data, offset), ShiftLeft(ByteAt(data, offset + 1), 8)))

\* Variant of gb_to_file_offset that takes 0x4000 itself for a home-bank
\* pointer.
gb_to_file_offset_HomeIncludes4000(ptr, bank) ==
    IF ptr <= 16384 THEN Ok(ptr)
    ELSE IF bank < 0 THEN Raised("ValueError")
    ELSE Ok((bank * 16384) + (ptr - 16384))

gb_to_file_offset(ptr, bank) ==
    IF ptr < 16384 THEN Ok(ptr)
    ELSE IF bank < 0 THEN Raised("ValueError")
    ELSE Ok((bank * 16384) + (ptr - 16384))

\* Variant of decode_tile that reads the pixels of a row from bit 0 up.
decode_tile_Mirrored(tile_bytes) ==
    LET padded == IF Len(tile_bytes) < 16
                  THEN tile_bytes \o Zeros(16 - Len(tile_bytes))
                  ELSE SubSeq(tile_bytes, 1, 16)
    IN [row \in 1..8 |->
          [col \in 1..8 |->
             BitOr(ShiftLeft(BitAnd(ShiftRight(padded[row + 8], col - 1), 1), 1),
                   BitAnd(ShiftRight(padded[row], col - 1), 1))]]

\* pixels[row][bit_pos] for row, bit_pos in 0..7 is the entry
\* [row + 1][bit_pos + 1] of the result.
decode_tile(tile_bytes) ==
    LET padded == IF Len(tile_bytes) < 16
                  THEN tile_bytes \o Zeros(16 - Len(tile_bytes))
                  ELSE IF Len(tile_bytes) > 16 THEN SubSeq(tile_bytes, 1, 16)
                  ELSE tile_bytes
    IN [row \in 1..8 |->
          [col \in 1..8 |->
             LET plane0_byte == padded[row]
                 plane1_byte == padded[row + 8]
                 bit_index == 7 - (col - 1)
                 low == BitAnd(ShiftRight(plane0_byte, bit_index), 1)
                 high == BitAnd(ShiftRight(plane1_byte, bit_index), 1)
             IN BitOr(ShiftLeft(high, 1), low)]]

(***************************************************************************)
(* The crop bounds of the full render (tools/map_dumper.py:251-262), in    *)
(* grid units: <<left, right, top, bottom>>.                               *)
(***************************************************************************)
Max2(a, b) == IF a >= b THEN a ELSE b       \* max(a, b)
Min2(a, b) == IF a <= b THEN a ELSE b       \* min(a, b)

crop_bounds(pos_tuple, crop_tuple, grid_w, grid_h) ==
    LET crop_w == crop_tuple[1]
        crop_h == crop_tuple[2]
        half_w == crop_w \div 2
        half_h == crop_h \div 2
        left == pos_tuple[1] - half_w
        right == pos_tuple[1] + half_w
        top == pos_tuple[2] - half_h
        bottom == pos_tuple[2] + half_h
    IN << Max2(0, left), Min2(grid_w - 1, right),
          Max2(0, top), Min2(grid_h - 1, bottom) >>

(***************************************************************************)
(* The loaders (rom.py:20-81, dump.py:50-105 and 189-209).  load_map and   *)
(* load_tileset_header of dump.py repeat those of rom.py line for line up  *)
(* to the reading of the tile map, which each module does its own way;     *)
(* find_path of dump.py reads the collision list and the blocks inline.    *)
(***************************************************************************)
ptr_table == 430          \* 0x01AE
bank_table == 49725       \* 0xC23D
base == 51134             \* 0xC7BE
header_size == 12

\* Variant of BankOutOfRange that lets the bank len(rom) // 0x4000 pass.
BankOutOfRange_OffByOne(image, bank) == bank > image.len \div 16384

\* bank >= num_banks
BankOutOfRange(image, bank) == bank >= image.len \div 16384

\* Variant of MapHeaderFields that takes the width before the height.
MapHeaderFields_WidthFirst(image, header_off) ==
    << read_u8(image, header_off), read_u8(image, header_off + 2),
       read_u8(image, header_off + 1), read_u16(image, header_off + 3) >>

\* The reads of the map header: tileset_id, height, width, map_data_ptr.
MapHeaderFields(image, header_off) ==
    << read_u8(image, header_off), read_u8(image, header_off + 1),
       read_u8(image, header_off + 2), read_u16(image, header_off + 3) >>

\* The first exception among the results rs, None when there is none.
FirstRaised(rs) ==
    IF \E i \in 1..Len(rs) : IsRaised(rs[i])
    THEN rs[CHOOSE i \in 1..Len(rs) :
               IsRaised(rs[i]) /\ \A j \in 1..(i - 1) : ~IsRaised(rs[j])]
    ELSE None

\* load_map up to the dimension test: Ok(<<tileset_id, width, height,
\* map_data_off>>) or the exception raised.
MapHeader(image, id) ==
    LET ptr_offset == ptr_table + id * 2
        bank_offset == bank_table + id
    IN IF ptr_offset + 1 >= image.len \/ bank_offset >= image.len
       THEN Raised("ValueError")
       ELSE
       LET ptr == read_u16(image, ptr_offset)
           bank == read_u8(image, bank_offset)
       IN IF FirstRaised(<<ptr, bank>>) # None THEN FirstRaised(<<ptr, bank>>)
          ELSE IF BankOutOfRange(image, bank[2]) THEN Raised("ValueError")
          ELSE
          LET header_off == gb_to_file_offset(ptr[2], bank[2])
          IN IF IsRaised(header_off) THEN header_off
             ELSE IF header_off[2] + 5 > image.len THEN Raised("ValueError")
             ELSE
             LET f == MapHeaderFields(image, header_off[2])
             IN IF FirstRaised(f) # None THEN FirstRaised(f)
                ELSE
                LET map_data_off == gb_to_file_offset(f[4][2], bank[2])
                IN IF IsRaised(map_data_off) THEN map_data_off
                   ELSE IF f[3][2] <= 0 \/ f[2][2] <= 0 THEN Raised("ValueError")
                   ELSE Ok(<<f[1][2], f[3][2], f[2][2], map_data_off[2]>>)

\* Variant of TileMapBytes that does not pad.
TileMapBytes_NoPadding(image, map_data_off, expected_size) ==
    Slice(image, map_data_off,
          map_data_off + Min2(expected_size, Max2(0, image.len - map_data_off)))

\* rom.py:38-42
TileMapBytes(image, map_data_off, expected_size) ==
    LET size == Min2(expected_size, Max2(0, image.len - map_data_off))
    IN Slice(image, map_data_off, map_data_off + size)
         \o Zeros(expected_size - size)

\* dump.py:73-85
\* Variant of DumpTileMapBytes that returns the bytes read without padding.
DumpTileMapBytes_NoPadding(image, map_data_off, expected_size) ==
    LET size == IF map_data_off + expected_size > image.len
                THEN Max2(0, image.len - map_data_off)
                ELSE expected_size
    IN Slice(image, map_data_off, map_data_off + size)

DumpTileMapBytes(image, map_data_off, expected_size) ==
    LET size == IF map_data_off + expected_size > image.len
                THEN Max2(0, image.len - map_data_off)
                ELSE expected_size
        md == Slice(image, map_data_off, map_data_off + size)
    IN IF Len(md) < expected_size THEN md \o Zeros(expected_size - Len(md))
       ELSE md

\* load_map of rom.py: Ok(<<tileset_id, width, height, map_data>>) or the
\* exception raised.
rom_load_map(image, id) ==
    LET hdr == MapHeader(image, id)
    IN IF IsRaised(hdr) THEN hdr
       ELSE Ok(<<hdr[2][1], hdr[2][2], hdr[2][3],
                 TileMapBytes(image, hdr[2][4], hdr[2][2] * hdr[2][3])>>)

\* load_map of dump.py
load_map(image, id) ==
    LET hdr == MapHeader(image, id)
    IN IF IsRaised(hdr) THEN hdr
       ELSE Ok(<<hdr[2][1], hdr[2][2], hdr[2][3],
                 DumpTileMapBytes(image, hdr[2][4], hdr[2][2] * hdr[2][3])>>)

\* Ok(<<bank, blocks_ptr, tiles_ptr, collision_ptr, interaction_ptr>>) or
\* the exception raised.
\* load_tileset_header of rom.py: the pointers are read into the dict ptrs
\* in the order blocks, tiles, collision, interaction.
rom_load_tileset_header(image, tsid) ==
    LET header_table_offset == base + tsid * header_size
    IN IF header_table_offset + header_size > image.len THEN Raised("ValueError")
       ELSE
       LET bank == read_u8(image, header_table_offset)
           ptrs == [k \in {"blocks", "tiles", "collision", "interaction"} |->
                       read_u16(image, header_table_offset
                                         + (CASE k = "blocks" -> 1
                                              [] k = "tiles" -> 3
                                              [] k = "collision" -> 5
                                              [] k = "interaction" -> 7))]
           f == <<bank, ptrs["blocks"], ptrs["tiles"], ptrs["collision"],
                  ptrs["interaction"]>>
       IN IF FirstRaised(f) # None THEN FirstRaised(f)
          ELSE IF BankOutOfRange(image, bank[2]) THEN Raised("ValueError")
          ELSE Ok(<<bank[2], ptrs["blocks"][2], ptrs["tiles"][2],
                    ptrs["collision"][2], ptrs["interaction"][2]>>)

load_tileset_header(image, tsid) ==
    LET header_table_offset == base + tsid * header_size
    IN IF header_table_offset + header_size > image.len THEN Raised("ValueError")
       ELSE
       LET f == << read_u8(image, header_table_offset),
                   read_u16(image, header_table_offset + 1),
                   read_u16(image, header_table_offset + 3),
                   read_u16(image, header_table_offset + 5),
                   read_u16(image, header_table_offset + 7) >>
       IN IF FirstRaised(f) # None THEN FirstRaised(f)
          ELSE IF BankOutOfRange(image, f[1][2]) THEN Raised("ValueError")
          ELSE Ok(<<f[1][2], f[2][2], f[3][2], f[4][2], f[5][2]>>)

\* Variant of CollisionLoop that takes the terminator into the set.
RECURSIVE CollisionLoop_KeepsTerminator(_, _, _)
CollisionLoop_KeepsTerminator(image, idx, collision) ==
    IF idx < image.len
    THEN IF ByteAt(image, idx) # 255
         THEN CollisionLoop_KeepsTerminator(image, idx + 1,
                                            collision \cup {ByteAt(image, idx)})
         ELSE collision \cup {255}
    ELSE collision

\* The while loop of load_collision_data (rom.py:66-68).
RECURSIVE CollisionLoop(_, _, _)
CollisionLoop(image, idx, collision) ==
    IF idx < image.len /\ ByteAt(image, idx) # 255
    THEN CollisionLoop(image, idx + 1, collision \cup {ByteAt(image, idx)})
    ELSE collision

\* Ok(collision) or the exception raised.
load_collision_data(image, collision_ptr, bank) ==
    LET col_off == gb_to_file_offset(collision_ptr, bank)
    IN IF IsRaised(col_off) THEN col_off
       ELSE IF col_off[2] >= image.len THEN Raised("ValueError")
       ELSE Ok(CollisionLoop(image, col_off[2], {}))

\* The while loop of find_path (dump.py:196-199): the list collision.
RECURSIVE FindPathCollisionLoop(_, _, _)
FindPathCollisionLoop(image, idx, collision) ==
    IF idx < image.len
    THEN LET v == ByteAt(image, idx)
         IN IF v = 255 THEN collision
            ELSE FindPathCollisionLoop(image, idx + 1, Append(collision, v))
    ELSE collision

\* dump.py:192-200: Ok(walkable_tiles) or the exception raised.
FindPathCollision(image, collision_ptr, bank) ==
    LET col_off == gb_to_file_offset(collision_ptr, bank)
    IN IF IsRaised(col_off) THEN col_off
       ELSE IF col_off[2] >= image.len THEN Raised("ValueError")
       ELSE LET collision == FindPathCollisionLoop(image, col_off[2], <<>>)
            IN Ok({collision[i] : i \in 1..Len(collision)})

\* max(map_data) if map_data else 0
MaxOf(md) ==
    IF md = <<>> THEN 0
    ELSE CHOOSE m \in {md[i] : i \in 1..Len(md)} : \A i \in 1..Len(md) : md[i] <= m

\* rom[blk_off + i*16 : blk_off + i*16 + 16].ljust(16, b'\x00') for i in
\* range(count)
BlockList(image, blk_off, count) ==
    [k \in 1..count |->
        LET b == Slice(image, blk_off + (k - 1) * 16, blk_off + (k - 1) * 16 + 16)
        IN b \o Zeros(16 - Len(b))]

\* Variant of load_block_data that loads max(map_data)+1 blocks whatever
\* the ROM holds.
load_block_data_NoClamp(image, blocks_ptr, bank, md) ==
    LET blk_off == gb_to_file_offset(blocks_ptr, bank)
    IN IF IsRaised(blk_off) THEN blk_off
       ELSE IF blk_off[2] >= image.len THEN Raised("ValueError")
       ELSE Ok(BlockList(image, blk_off[2], MaxOf(md) + 1))

\* Variant of load_block_data that also loads the block the ROM end cuts
\* short.
load_block_data_LoadsPartial(image, blocks_ptr, bank, md) ==
    LET blk_off == gb_to_file_offset(blocks_ptr, bank)
    IN IF IsRaised(blk_off) THEN blk_off
       ELSE IF blk_off[2] >= image.len THEN Raised("ValueError")
       ELSE Ok(BlockList(image, blk_off[2],
                         Min2(MaxOf(md) + 1,
                              Max2(0, (image.len - blk_off[2] + 15) \div 16))))

\* Ok(blocks) or the exception raised.
load_block_data(image, blocks_ptr, bank, md) ==
    LET blk_off == gb_to_file_offset(blocks_ptr, bank)
    IN IF IsRaised(blk_off) THEN blk_off
       ELSE IF blk_off[2] >= image.len THEN Raised("ValueError")
       ELSE LET max_bidx == MaxOf(md)
                req_count == max_bidx + 1
                max_possible == Max2(0, (image.len - blk_off[2]) \div 16)
                count == Min2(req_count, max_possible)
            IN Ok(BlockList(image, blk_off[2], count))

\* dump.py:201-209: Ok(blocks) or the exception raised.
FindPathBlocks(image, blocks_ptr, bank, md) ==
    LET blk_off == gb_to_file_offset(blocks_ptr, bank)
    IN IF IsRaised(blk_off) THEN blk_off
       ELSE IF blk_off[2] >= image.len THEN Raised("ValueError")
       ELSE LET max_bidx == MaxOf(md)
                block_count == IF blk_off[2] + (max_bidx + 1) * 16 > image.len
                               THEN Max2(0, (image.len - blk_off[2]) \div 16)
                               ELSE max_bidx + 1
            IN Ok(BlockList(image, blk_off[2], block_count))

(***************************************************************************)
(* The loading steps, in the order find_path (dump.py:189-209) and main of *)
(* tools/map_dumper.py (lines 45-52) take them: impl = "dump" runs the     *)
(* code of dump.py, impl = "rom" the loaders of rom.py.                    *)
(***************************************************************************)
\* dump.py:189: rom = open(rom_path, 'rb').read()
OpenRom ==
    /\ pc = "open_rom"
    /\ IF IsRaised(rom_path)
       THEN /\ err' = rom_path
            /\ pc' = "open_failed"
            /\ UNCHANGED rom
       ELSE /\ rom' = rom_path[2]
            /\ pc' = "load_map"
            /\ UNCHANGED err
    /\ UNCHANGED <<rom_path, map_id, impl, tileset_id, tileset_header, fnVars, img,
                   mapVars, grid, walkable_special_quadrants, start, end, bfsVars,
                   result, out>>

LoadMap ==
    /\ pc = "load_map"
    /\ LET r == IF impl = "rom" THEN rom_load_map(rom, map_id)
                ELSE load_map(rom, map_id)
       IN IF IsRaised(r)
          THEN /\ err' = r
               /\ pc' = "load_map_failed"
               /\ UNCHANGED <<tileset_id, width, height, map_data>>
          ELSE /\ tileset_id' = r[2][1]
               /\ width' = r[2][2]
               /\ height' = r[2][3]
               /\ map_data' = r[2][4]
               /\ pc' = "load_tileset_header"
               /\ UNCHANGED err
    /\ UNCHANGED <<rom_path, rom, map_id, impl, tileset_header, fnVars, img, blocks,
                   walkable_tiles, grid, walkable_special_quadrants, start,
                   end, bfsVars, result, out>>

LoadTilesetHeader ==
    /\ pc = "load_tileset_header"
    /\ LET r == IF impl = "rom" THEN rom_load_tileset_header(rom, tileset_id)
                ELSE load_tileset_header(rom, tileset_id)
       IN IF IsRaised(r)
          THEN /\ err' = r
               /\ pc' = "load_tileset_header_failed"
               /\ UNCHANGED tileset_header
          ELSE /\ tileset_header' = r[2]
               /\ pc' = "load_collision"
               /\ UNCHANGED err
    /\ UNCHANGED <<rom_path, rom, map_id, impl, tileset_id, fnVars, img, mapVars, grid,
                   walkable_special_quadrants, start, end, bfsVars, result, out>>

LoadCollision ==
    /\ pc = "load_collision"
    /\ LET r == IF impl = "rom"
                THEN load_collision_data(rom, tileset_header[4], tileset_header[1])
                ELSE FindPathCollision(rom, tileset_header[4], tileset_header[1])
       IN IF IsRaised(r)
          THEN /\ err' = r
               /\ pc' = "load_collision_failed"
               /\ UNCHANGED walkable_tiles
          ELSE /\ walkable_tiles' = r[2]
               /\ pc' = "load_blocks"
               /\ UNCHANGED err
    /\ UNCHANGED <<rom_path, rom, map_id, impl, tileset_id, tileset_header, fnVars, img,
                   width, height, map_data, blocks, grid,
                   walkable_special_quadrants, start, end, bfsVars, result, out>>

LoadBlocks ==
    /\ pc = "load_blocks"
    /\ LET r == IF impl = "rom"
                THEN load_block_data(rom, tileset_header[2], tileset_header[1],
                                     map_data)
                ELSE FindPathBlocks(rom, tileset_header[2], tileset_header[1],
                                    map_data)
       IN IF IsRaised(r)
          THEN /\ err' = r
               /\ pc' = "load_blocks_failed"
               /\ UNCHANGED blocks
          ELSE /\ blocks' = r[2]
               /\ pc' = "fp_build"
               /\ UNCHANGED err
    /\ UNCHANGED <<rom_path, rom, map_id, impl, tileset_id, tileset_header, fnVars, img,
                   width, height, map_data, walkable_tiles, grid,
                   walkable_special_quadrants, start, end, bfsVars, result, out>>

\* find_path as one function of the ROM image and the request: the loaders
\* of the file which, then lines 210-217 of dump.py.
find_path(file, id, s, e, which) ==
    IF IsRaised(file) THEN None
    ELSE
    LET image == file[2]
        m == IF which = "rom" THEN rom_load_map(image, id) ELSE load_map(image, id)
    IN IF IsRaised(m) THEN None
       ELSE
       LET h == IF which = "rom" THEN rom_load_tileset_header(image, m[2][1])
                ELSE load_tileset_header(image, m[2][1])
       IN IF IsRaised(h) THEN None
          ELSE
          LET c == IF which = "rom" THEN load_collision_data(image, h[2][4], h[2][1])
                   ELSE FindPathCollision(image, h[2][4], h[2][1])
          IN IF IsRaised(c) THEN None
             ELSE
             LET b == IF which = "rom"
                      THEN load_block_data(image, h[2][2], h[2][1], m[2][4])
                      ELSE FindPathBlocks(image, h[2][2], h[2][1], m[2][4])
             IN IF IsRaised(b) THEN None
                ELSE FindPathResult(bfs_find_path(
                         build_quadrant_walkability(m[2][2], m[2][3], m[2][4],
                                                    b[2], c[2]),
                         s, e))

\* Variant of FindPathExcept without the clause for the exceptions of
\* reading the ROM file.
FindPathExcept_NoOpenErrors ==
    /\ pc \in {"load_map_failed", "load_tileset_header_failed",
               "load_collision_failed", "load_blocks_failed"}
    /\ out' = None
    /\ pc' = "done"
    /\ UNCHANGED <<romVars, fnVars, img, mapVars, grid, walkable_special_quadrants,
                   start, end, bfsVars, result>>

\* dump.py:215-217 (map_dumper.py:63-70): the exception of opening the file
\* or of a loader is caught and the call gives None.
FindPathExcept ==
    /\ pc \in {"open_failed", "load_map_failed", "load_tileset_header_failed",
               "load_collision_failed", "load_blocks_failed"}
    /\ out' = None
    /\ pc' = "done"
    /\ UNCHANGED <<romVars, fnVars, img, mapVars, grid, walkable_special_quadrants,
                   start, end, bfsVars, result>>

(***************************************************************************)
(* load_tile_graphics (rom.py:83-102) and the same loading inline in main  *)
(* of dump.py (lines 533-549).                                             *)
(***************************************************************************)
\* The loop "for i in range(count)": it appends the 16-byte slices in order
\* and breaks at the first i whose slice is short.
TileLoop(image, tile_off, count) ==
    LET d(i) == Slice(image, tile_off + i * 16, tile_off + i * 16 + 16)
        short == {i \in 0..(count - 1) : Len(d(i)) < 16}
        n == IF short = {} THEN count
             ELSE CHOOSE i \in short : \A j \in short : i <= j
    IN [k \in 1..n |-> d(k - 1)]

\* max_id after the loop over blocks (lines 87-89), from the block k on.
RECURSIVE MaxIdOver(_, _, _)
MaxIdOver(blks, k, max_id) ==
    IF k > Len(blks) THEN max_id
    ELSE MaxIdOver(blks, k + 1, Max2(max_id, MaxOf(blks[k])))

\* Variant of load_tile_graphics without the floor of 128 tiles.
load_tile_graphics_NoBase(image, tiles_ptr, bank, blks, wt) ==
    LET tile_off == gb_to_file_offset(tiles_ptr, bank)
    IN IF IsRaised(tile_off) THEN tile_off
       ELSE IF tile_off[2] >= image.len THEN Raised("ValueError")
       ELSE LET max_id == MaxIdOver(blks, 1,
                                    IF wt # {} THEN CHOOSE m \in wt : \A t \in wt : t <= m
                                    ELSE 0)
            IN Ok(TileLoop(image, tile_off[2],
                           Min2(Max2(0, (image.len - tile_off[2]) \div 16), max_id + 1)))

\* Ok(tiles) or the exception raised.
load_tile_graphics(image, tiles_ptr, bank, blks, wt) ==
    LET tile_off == gb_to_file_offset(tiles_ptr, bank)
    IN IF IsRaised(tile_off) THEN tile_off
       ELSE IF tile_off[2] >= image.len THEN Raised("ValueError")
       ELSE LET max_id0 == IF wt # {} THEN CHOOSE m \in wt : \A t \in wt : t <= m
                           ELSE 0
                max_id == MaxIdOver(blks, 1, max_id0)
                max_possible == Max2(0, (image.len - tile_off[2]) \div 16)
                count == Min2(max_possible, Max2(max_id + 1, 128))
            IN Ok(TileLoop(image, tile_off[2], count))

\* dump.py:533-549, collision being the list read from the ROM.
MainTileGraphics(image, tiles_ptr, bank, blks, collision) ==
    LET tile_off == gb_to_file_offset(tiles_ptr, bank)
    IN IF IsRaised(tile_off) THEN tile_off
       ELSE IF tile_off[2] >= image.len THEN Raised("ValueError")
       ELSE LET max_tiles_possible == Max2(0, (image.len - tile_off[2]) \div 16)
                max_tile_id_used0 == IF collision # <<>> THEN Max2(0, MaxOf(collision))
                                     ELSE 0
                max_tile_id_used == MaxIdOver(blks, 1, max_tile_id_used0)
                num_tiles_to_load == Min2(max_tiles_possible,
                                          Max2(max_tile_id_used + 1, 128))
            IN Ok(TileLoop(image, tile_off[2], num_tiles_to_load))

(***************************************************************************)
(* Calls of the pure helpers.                                              *)
(***************************************************************************)
CallReadU8 ==
    /\ pc = "call" /\ call[1] = "read_u8"
    /\ ret' = read_u8(call[2], call[3])
    /\ pc' = "returned"
    /\ UNCHANGED <<call, img, romVars, mapVars, grid, walkable_special_quadrants,
                   start, end, bfsVars, result, out>>

CallReadU16 ==
    /\ pc = "call" /\ call[1] = "read_u16"
    /\ ret' = read_u16(call[2], call[3])
    /\ pc' = "returned"
    /\ UNCHANGED <<call, img, romVars, mapVars, grid, walkable_special_quadrants,
                   start, end, bfsVars, result, out>>

CallGbToFileOffset ==
    /\ pc = "call" /\ call[1] = "gb_to_file_offset"
    /\ ret' = gb_to_file_offset(call[2], call[3])
    /\ pc' = "returned"
    /\ UNCHANGED <<call, img, romVars, mapVars, grid, walkable_special_quadrants,
                   start, end, bfsVars, result, out>>

CallDecodeTile ==
    /\ pc = "call" /\ call[1] = "decode_tile"
    /\ ret' = Ok(decode_tile(call[2]))
    /\ pc' = "returned"
    /\ UNCHANGED <<call, img, romVars, mapVars, grid, walkable_special_quadrants,
                   start, end, bfsVars, result, out>>

\* call = <<"crop", pos_tuple, crop_tuple, grid_w, grid_h>>
CallCrop ==
    /\ pc = "call" /\ call[1] = "crop"
    /\ ret' = Ok(crop_bounds(call[2], call[3], call[4], call[5]))
    /\ pc' = "returned"
    /\ UNCHANGED <<call, img, romVars, mapVars, grid, walkable_special_quadrants,
                   start, end, bfsVars, result, out>>

\* call = <<fn, rom, tiles_ptr, bank, blocks, collision>>
CallLoadTileGraphics ==
    /\ pc = "call" /\ call[1] = "load_tile_graphics"
    /\ ret' = load_tile_graphics(call[2], call[3], call[4], call[5],
                                 {call[6][i] : i \in 1..Len(call[6])})
    /\ pc' = "returned"
    /\ UNCHANGED <<call, img, romVars, mapVars, grid, walkable_special_quadrants,
                   start, end, bfsVars, result, out>>

CallMainTileGraphics ==
    /\ pc = "call" /\ call[1] = "main_tile_graphics"
    /\ ret' = MainTileGraphics(call[2], call[3], call[4], call[5], call[6])
    /\ pc' = "returned"
    /\ UNCHANGED <<call, img, romVars, mapVars, grid, walkable_special_quadrants,
                   start, end, bfsVars, result, out>>

(***************************************************************************)
(* Inputs.                                                                 *)
(***************************************************************************)
\* Subtile IDs used in the block tables of the model: 0x00 is an ordinary
\* tile, 0x04 and 0x05 are two of SPECIAL_FEATURE_TILE_IDS.
TileIds == {0, 4, 5}

\* A 16-byte block whose subtiles are all t0, but for the subtile at Python
\* index p, which is t1.
OneOff(t0, p, t1) == [i \in 1..16 |-> IF i = p + 1 THEN t1 ELSE t0]

\* A tile map of n cells that refers to block 0 everywhere but in cell f,
\* where it refers to block b.
FeatureMap(n, f, b) == [i \in 1..n |-> IF i = f + 1 THEN b ELSE 0]

\* A block table of n blocks: block 0 is uniform, the others are one-off.
BlockTable(n, t0, p, t1) ==
    [i \in 1..n |-> IF i = 1 THEN OneOff(t0, p, t0) ELSE OneOff(t0, p, t1)]

\* The block tables of at most n blocks.
BlockTables(n) ==
    {<<>>}
      \cup {BlockTable(1, t0, 0, t0) : t0 \in TileIds}
      \cup UNION {{BlockTable(k, t0, p, t1) : k \in 2..n, p \in 0..15,
                                               t1 \in TileIds \ {t0}} :
                      t0 \in TileIds}

NoMap ==
    /\ width = 0 /\ height = 0 /\ map_data = <<>> /\ blocks = <<>>
    /\ walkable_tiles = {}

NoRom ==
    /\ rom_path = NotStarted
    /\ rom = [len |-> 0, bytes |-> <<>>] /\ map_id = 0 /\ impl = "dump"
    /\ tileset_id = NotStarted /\ tileset_header = NotStarted /\ err = None

NoCall == call = NotStarted /\ ret = NotStarted

NoImg == img = NotStarted

NoBfs ==
    /\ queue = <<>> /\ prev = <<>> /\ path_found = FALSE
    /\ cur = NotStarted /\ path_actions = <<>> /\ path_coords = <<>>
    /\ result = NotStarted /\ out = NotStarted

BoolGrids(r, c) == [1..r -> [1..c -> BOOLEAN]]

CountCells(g, v) ==
    Cardinality({c \in (1..Len(g)) \X (1..Len(g[1])) : g[c[1]][c[2]] = v})

\* The grids of r rows and c columns the model hands to _bfs_find_path.
Grids(r, c) ==
    IF r = 0 THEN {<<>>}
    ELSE IF c = 0 THEN {[y \in 1..r |-> <<>>]}
    ELSE {g \in BoolGrids(r, c) :
             CountCells(g, FALSE) <= MaxDiff \/ CountCells(g, TRUE) <= MaxDiff}

\* The coordinates tried on a grid: every cell, and one coordinate beyond
\* each of the four edges.
Coords(g) ==
    LET r == Len(g)
        c == IF g = <<>> THEN 0 ELSE Len(g[1])
    IN ((0..(c - 1)) \X (0..(r - 1)))
         \cup {<<-1, 0>>, <<c, 0>>, <<0, -1>>, <<0, r>>}

\* _bfs_find_path called on a grid, as line 211 of find_path calls it and
\* as a caller holding a grid of its own does.
InitDirect ==
    /\ pc = "bfs_enter"
    /\ \E r \in 0..MaxRows, c \in 0..MaxCols : grid \in Grids(r, c)
    /\ start \in Coords(grid)
    /\ end \in Coords(grid)
    /\ NoMap
    /\ walkable_special_quadrants = {}
    /\ NoBfs
    /\ NoImg
    /\ NoRom
    /\ NoCall

\* find_path on a 2x2-block map with collision set {0x00} whose blocks are
\* all 0x00, but for one subtile of the block of one map cell; from (0,0)
\* to (3,3).
InitScenario ==
    /\ pc = "fp_build"
    /\ width = 2 /\ height = 2
    /\ walkable_tiles = {0}
    /\ \E f \in 0..3 : map_data = FeatureMap(4, f, 1)
    /\ \E p \in 0..15, t1 \in {1, 4} : blocks = BlockTable(2, 0, p, t1)
    /\ grid = <<>>
    /\ start = <<0, 0>> /\ end = <<3, 3>>
    /\ walkable_special_quadrants = {}
    /\ NoBfs
    /\ NoImg
    /\ NoRom
    /\ NoCall

Init == InitDirect \/ InitScenario

Next ==
    \/ FindPathBuild
    \/ BfsEnter
    \/ BfsIterate
    \/ BfsExhausted
    \/ BfsReconstruct
    \/ BfsReturn
    \/ FindPathReturn

Spec == Init /\ [][Next]_vars

(***************************************************************************)
(* Specification SpecGrid: the grid builder and the special-quadrant scan  *)
(* of dump_minimal_map on small maps.  The tile map has width*height       *)
(* cells (load_map pads it) and the block table has at most                *)
(* max(map_data)+1 blocks (the block loader loads no more).                *)
(***************************************************************************)
InitGrid ==
    /\ pc = "dmm_build"
    /\ width \in 1..MaxWidth
    /\ height \in 1..MaxHeight
    /\ \E f \in 0..(width * height - 1), b \in 0..MaxBidx :
          /\ map_data = FeatureMap(width * height, f, b)
          /\ blocks \in BlockTables(b + 1)
    /\ walkable_tiles \in SUBSET {0, 4}
    /\ grid = <<>>
    /\ start = NotStarted /\ end = NotStarted
    /\ walkable_special_quadrants = {}
    /\ NoBfs
    /\ NoImg
    /\ NoRom
    /\ NoCall

NextGrid ==
    \/ DumpBuild
    \/ DumpScan
    \/ DumpFill

SpecGrid == InitGrid /\ [][NextGrid]_vars

(***************************************************************************)
(* Specification SpecFn: single calls of read_u8, read_u16,                *)
(* gb_to_file_offset, decode_tile and the crop computation.                *)
(***************************************************************************)
MaxBuf == 3       \* length of a buffer handed to read_u8 / read_u16
MaxBank == 3      \* largest bank handed to gb_to_file_offset
MaxTile == 17     \* length of the bytes handed to decode_tile
MaxCrop == 3      \* width and height of a crop window

\* Byte values of the buffers.
BufBytes == {0, 1, 255}

Buffers ==
    UNION {{[len |-> n, bytes |-> f] : f \in [0..(n - 1) -> BufBytes]} :
              n \in 0..MaxBuf}

ReadCalls ==
    {<<fn, d, o>> : fn \in {"read_u8", "read_u16"}, d \in Buffers,
                    o \in (-2)..(MaxBuf + 1)}

\* Pointers on both sides of 0x4000, and the ends of the 16-bit range.
GbPtrs == {-1, 0, 16383, 16384, 16385, 32767, 32768, 65535}

GbCalls ==
    {<<"gb_to_file_offset", ptr, bank>> : ptr \in GbPtrs, bank \in (-1)..MaxBank}

\* Tiles of n bytes, all b0 but for the byte at Python index p, which is
\* b1; and the tiles whose first 8 bytes are 0xFF and whose others are 0x00.
TileBytes ==
    UNION {{[i \in 1..n |-> IF i = p + 1 THEN b1 ELSE b0] :
               p \in 0..(n - 1), b0 \in {0, 255}, b1 \in {0, 1, 128, 165, 255}} :
              n \in 0..MaxTile}
      \cup {<<>>}
      \cup {[i \in 1..n |-> IF i <= 8 THEN 255 ELSE 0] : n \in 8..MaxTile}

TileCalls == {<<"decode_tile", t>> : t \in TileBytes}

\* Anchors inside the grid and up to one cell outside it; the grid is that
\* of a map of 1..MaxWidth by 1..MaxHeight blocks (map_dumper.py:56).
CropCalls ==
    UNION {{<<"crop", <<px, py>>, <<cw, ch>>, w * 2, h * 2>> :
               px \in (-1)..(w * 2), py \in (-1)..(h * 2),
               cw \in 0..MaxCrop, ch \in 0..MaxCrop} :
              <<w, h>> \in (1..MaxWidth) \X (1..MaxHeight)}

\* A 64 KiB image whose tiles area at offset o is marked: byte 0 of its
\* tile i holds i + 1 for the tiles around the base 128.
TileImage(o) ==
    [len |-> 65536,
     bytes |-> [a \in {o + i * 16 : i \in {0, 1, 126, 127, 128, 129}} \cap 0..65535
                   |-> (a - o) \div 16 + 1]]

\* Pointers into bank 3 that leave, to the end of the image, room for 928,
\* 201, 129, 128 and 127 tiles, 8 bytes, and nothing.
TilePtrs == {17920, 29552, 30704, 30720, 30728, 32760, 32768}

\* Collision lists and block lists whose highest tile IDs are 0, 4, 5, 130
\* and 200.
TileGraphicsCalls ==
    {<<fn, TileImage(gb_to_file_offset(tp, 3)[2]), tp, 3, bl, col>> :
        fn \in {"load_tile_graphics", "main_tile_graphics"},
        tp \in TilePtrs,
        bl \in {<<>>, <<OneOff(0, 4, 5)>>, <<OneOff(0, 0, 0), OneOff(0, 3, 130)>>},
        col \in {<<>>, <<0, 4>>, <<200, 0>>}}

InitFn ==
    /\ pc = "call"
    /\ call \in ReadCalls \cup GbCalls \cup TileCalls \cup CropCalls
                 \cup TileGraphicsCalls
    /\ ret = NotStarted
    /\ NoMap
    /\ grid = <<>>
    /\ start = NotStarted /\ end = NotStarted
    /\ walkable_special_quadrants = {}
    /\ NoBfs
    /\ NoImg
    /\ NoRom

NextFn ==
    \/ CallReadU8
    \/ CallReadU16
    \/ CallGbToFileOffset
    \/ CallDecodeTile
    \/ CallCrop
    \/ CallLoadTileGraphics
    \/ CallMainTileGraphics

SpecFn == InitFn /\ [][NextFn]_vars

(***************************************************************************)
(* Specification SpecRom: find_path from the ROM image on.  The images are *)
(* those of a 64 KiB ROM laid out as the loaders expect, changed in at     *)
(* most MaxDev of the fields below; each field has the value of the well   *)
(* formed image and alternatives that move data to the end of the image    *)
(* or beyond it, shorten the image, or put a bank out of range.            *)
(***************************************************************************)
MaxDev == 2       \* fields of the image that differ from the well formed one

\* <<value in the well formed image, alternatives>> for each field.
RomFields ==
    << <<65536, {431, 49725, 49726, 51145}>>,     \* 1: len(rom)
       <<0, {1}>>,                                \* 2: map_id
       <<3, {0, 1, 4, 255}>>,                     \* 3: bank of the map header
       <<16640, {12288, 32763, 32764}>>,          \* 4: pointer to the map header
       <<0, {1}>>,                                \* 5: tileset_id
       <<1, (0..MaxHeight) \ {1}>>,               \* 6: height
       <<2, (0..MaxWidth) \ {2}>>,                \* 7: width
       <<16896, {12544, 32767, 32768, 32769}>>,   \* 8: map_data_ptr
       <<0, {1}>>,                                \* 9: cell of the tile map that
                                                  \*    refers to a block of its own
       <<1, (0..MaxBidx) \ {1}>>,                 \* 10: the block that cell refers to
       <<3, {1, 4}>>,                             \* 11: bank of the tileset
       <<17408, {12800, 32744, 32752, 32760, 32768}>>,   \* 12: blocks_ptr
       <<17664, {13056, 32766, 32768}>>,          \* 13: collision_ptr
       <<1, {2, 3, 4}>>,                          \* 14: collision list (CollisionLists)
       <<0, {4, 5}>>,                             \* 15: subtile ID of block 0
       <<4, {5, 14}>>,                            \* 16: the odd subtile of block 1
       <<4, {0, 5}>> >>                           \* 17: its ID

\* Collision lists, without their terminator.
CollisionLists == << <<0, 4>>, <<>>, <<0>>, <<4, 4, 1>> >>

\* The values of the fields from the i-th on, with at most k of them not
\* those of the well formed image.
RECURSIVE FieldValues(_, _)
FieldValues(i, k) ==
    IF i > Len(RomFields) THEN {<<>>}
    ELSE {<<RomFields[i][1]>> \o t : t \in FieldValues(i + 1, k)}
           \cup (IF k = 0 THEN {}
                 ELSE {<<a>> \o t : a \in RomFields[i][2],
                                    t \in FieldValues(i + 1, k - 1)})

\* Where a pointer of a bank lies in the image.
FileOffsetOf(ptr, bank) ==
    IF ptr < 16384 THEN ptr ELSE bank * 16384 + (ptr - 16384)

LittleEndian(v) == <<v % 256, v \div 256>>

\* The data of an image with field values v: <<offset, bytes>> pairs, the
\* earlier pair holding where two overlap.
RomWrites(v) ==
    << <<ptr_table + v[2] * 2, LittleEndian(v[4])>>,
       <<bank_table + v[2], <<v[3]>>>>,
       <<base + v[5] * header_size,
         <<v[11]>> \o LittleEndian(v[12]) \o LittleEndian(17920)
                   \o LittleEndian(v[13]) \o LittleEndian(18176) \o <<0, 0, 0>>>>,
       <<FileOffsetOf(v[4], v[3]), <<v[5], v[6], v[7]>> \o LittleEndian(v[8])>>,
       <<FileOffsetOf(v[13], v[11]), CollisionLists[v[14]] \o <<255>>>>,
       <<FileOffsetOf(v[12], v[11]),
         OneOff(v[15], 0, v[15]) \o OneOff(v[15], v[16], v[17])>>,
       <<FileOffsetOf(v[8], v[3]), FeatureMap(v[6] * v[7], v[9], v[10])>> >>

\* The image with field values v.
RomImage(v) ==
    LET ws == RomWrites(v)
        Covers(i, o) == ws[i][1] <= o /\ o < ws[i][1] + Len(ws[i][2])
        offs == {o \in UNION {ws[i][1]..(ws[i][1] + Len(ws[i][2]) - 1) :
                                 i \in 1..Len(ws)} : o < v[1]}
    IN [len |-> v[1],
        bytes |-> [o \in offs |->
                      LET i == CHOOSE i \in 1..Len(ws) :
                                   Covers(i, o) /\ \A j \in 1..(i - 1) : ~Covers(j, o)
                      IN ws[i][2][o - ws[i][1] + 1]]]

\* The exceptions of open(rom_path, 'rb').read() that the model raises.
OpenErrors == {"FileNotFoundError", "IOError"}

InitRom ==
    /\ pc = "open_rom"
    /\ \E v \in FieldValues(1, MaxDev) :
          /\ \/ rom_path = Ok(RomImage(v))
             \/ /\ v \in FieldValues(1, 0)
                /\ \E e \in OpenErrors : rom_path = Raised(e)
          /\ map_id = v[2]
    /\ rom = [len |-> 0, bytes |-> <<>>]
    /\ impl \in {"rom", "dump"}
    /\ tileset_id = NotStarted /\ tileset_header = NotStarted /\ err = None
    /\ NoMap
    /\ grid = <<>>
    /\ start = <<0, 0>> /\ end = <<3, 1>>
    /\ walkable_special_quadrants = {}
    /\ NoBfs
    /\ NoImg
    /\ NoCall

NextRom ==
    \/ OpenRom
    \/ LoadMap
    \/ LoadTilesetHeader
    \/ LoadCollision
    \/ LoadBlocks
    \/ FindPathExcept
    \/ FindPathBuild
    \/ BfsEnter
    \/ BfsIterate
    \/ BfsExhausted
    \/ BfsReconstruct
    \/ BfsReturn
    \/ FindPathReturn

SpecRom == InitRom /\ [][NextRom]_vars

(***************************************************************************)
(* Properties.                                                             *)
(***************************************************************************)
\* _bfs_find_path has returned.
Returned == pc \in {"bfs_returned", "done"}

\* _bfs_find_path returned a path (actions, coords).
IsFound(v) == v # None /\ v # NotStarted /\ ~IsRaised(v) /\ Len(v) = 2

\* The cells one move away from a cell of S, inside the grid and walkable.
Step(g, S) ==
    { n \in (0..(Len(g[1]) - 1)) \X (0..(Len(g) - 1)) :
        /\ g[n[2] + 1][n[1] + 1]
        /\ \E c \in S : \/ (n[1] = c[1] /\ (n[2] = c[2] + 1 \/ n[2] = c[2] - 1))
                        \/ (n[2] = c[2] /\ (n[1] = c[1] + 1 \/ n[1] = c[1] - 1)) }

\* The length of a shortest 4-connected route from the cells of S (reached
\* with k moves) to e whose cells after the first are walkable; -1 when
\* there is none.
RECURSIVE RouteLen(_, _, _, _)
RouteLen(g, S, e, k) ==
    IF e \in S THEN k
    ELSE LET T == S \cup Step(g, S)
         IN IF T = S THEN -1 ELSE RouteLen(g, T, e, k + 1)

ShortestLen(g, s, e) == RouteLen(g, {s}, e, 0)

Abs(n) == IF n < 0 THEN -n ELSE n

\* C1: whenever _bfs_find_path returns a path, start and end are inside
\* the grid, end is walkable, and the number of actions is the length of a
\* shortest 4-connected route from start to end through walkable cells: no
\* strictly shorter route exists.
C1_ShortestRoute ==
    (Returned /\ IsFound(result)) =>
        /\ InBounds(grid, start[1], start[2])
        /\ InBounds(grid, end[1], end[2])
        /\ Cell(grid, end[1], end[2])
        /\ Len(result[1]) = ShortestLen(grid, start, end)

\* A path was returned that is longer than the straight distance: the
\* route goes around a blocked cell.
C1_Witness ==
    /\ Returned /\ IsFound(result)
    /\ Len(result[1]) > Abs(end[1] - start[1]) + Abs(end[2] - start[2])

\* The coordinate reached from c by one action letter.
Replay(c, a) ==
    IF a = "R" THEN <<c[1] + 1, c[2]>>
    ELSE IF a = "L" THEN <<c[1] - 1, c[2]>>
    ELSE IF a = "D" THEN <<c[1], c[2] + 1>>
    ELSE <<c[1], c[2] - 1>>

\* C2: for every returned path, len(actions) = len(coords) - 1, coords[0] is
\* start, and replaying the actions from start (R = x+1, L = x-1, D = y+1,
\* U = y-1) visits coords[1], coords[2], ... and ends at end.
C2_RoundTrip ==
    (Returned /\ IsFound(result)) =>
        LET actions == result[1]
            coords  == result[2]
        IN /\ Len(actions) = Len(coords) - 1
           /\ coords[1] = start
           /\ \A i \in 1..Len(actions) :
                 /\ actions[i] \in {"R", "L", "D", "U"}
                 /\ coords[i + 1] = Replay(coords[i], actions[i])
           /\ coords[Len(coords)] = end

\* A returned path that moves both down and up.
C2_Witness ==
    /\ Returned /\ IsFound(result)
    /\ \E i, j \in 1..Len(result[1]) : result[1][i] = "D" /\ result[1][j] = "U"

\* C3: every non-None result of find_path matches the action grammar
\* ACTION_RE and ends in ';'.
C3_Grammar ==
    (pc = "done" /\ out # None) =>
        /\ ACTION_RE(out)
        /\ out[Len(out)] = ";"

\* C4 as stated: for any grid and any in-bounds c, _bfs_find_path(grid, c, c)
\* returns the empty action string and the coordinate path [c].
C4_SamePoint_AsStated ==
    (Returned /\ start = end /\ grid # <<>> /\ grid[1] # <<>>
        /\ InBounds(grid, start[1], start[2])) =>
        result = << <<>>, <<start>> >>

\* C4 amended: for any grid and any in-bounds walkable c,
\* _bfs_find_path(grid, c, c) returns the empty action string and [c]; for
\* an in-bounds non-walkable c it returns None.
C4_SamePoint ==
    (Returned /\ start = end /\ grid # <<>> /\ grid[1] # <<>>
        /\ InBounds(grid, start[1], start[2])) =>
        IF Cell(grid, start[1], start[2])
        THEN result = << <<>>, <<start>> >>
        ELSE result = None

\* The search returned for start = end on a walkable cell.
C4_Witness ==
    /\ Returned /\ start = end /\ grid # <<>> /\ grid[1] # <<>>
    /\ InBounds(grid, start[1], start[2])
    /\ Cell(grid, start[1], start[2])

\* C5: _bfs_find_path returns None whenever start or end lies outside the
\* grid or the end cell is non-walkable; so it does for two distinct points
\* of a fully-blocked grid and for an out-of-bounds target.
C5_NoneOnBadEndpoints ==
    (Returned /\ (\/ grid = <<>>
                  \/ grid[1] = <<>>
                  \/ ~InBounds(grid, start[1], start[2])
                  \/ ~InBounds(grid, end[1], end[2])
                  \/ ~Cell(grid, end[1], end[2]))) =>
        result = None

\* The search returned for two distinct in-bounds points of a fully-blocked
\* grid.
C5_Witness ==
    /\ Returned /\ grid # <<>> /\ grid[1] # <<>>
    /\ CountCells(grid, TRUE) = 0
    /\ start # end
    /\ InBounds(grid, start[1], start[2])
    /\ InBounds(grid, end[1], end[2])

\* The non-walkable cells of a grid.
Blocked(g) ==
    { c \in (0..(Len(g[1]) - 1)) \X (0..(Len(g) - 1)) : ~g[c[2] + 1][c[1] + 1] }

\* The elements of a sequence.
Range(q) == { q[i] : i \in 1..Len(q) }

\* find_path was called on the 2x2-block map with collision set {0x00} and
\* the search from (0,0) to (3,3) has ended.
ScenarioDone ==
    pc = "done" /\ width = 2 /\ height = 2 /\ walkable_tiles = {0}
        /\ start = <<0, 0>> /\ end = <<3, 3>>

\* Every coordinate of a returned path is inside the grid and every
\* coordinate after the first is walkable.
PathCellsFree ==
    (Returned /\ IsFound(result)) =>
        \A i \in 1..Len(result[2]) :
            /\ InBounds(grid, result[2][i][1], result[2][i][2])
            /\ i > 1 => Cell(grid, result[2][i][1], result[2][i][2])

\* C6 as stated: every coordinate of a returned path is inside the grid and
\* every coordinate after the first is walkable; on the 2x2-block map with
\* one quadrant made non-walkable the route from (0,0) to (3,3) avoids that
\* cell and the emitted string is non-empty and ends in ';'.
C6_RouteAround_AsStated ==
    /\ PathCellsFree
    /\ (ScenarioDone /\ Cardinality(Blocked(grid)) = 1) =>
          /\ IsFound(result)
          /\ Blocked(grid) \cap Range(result[2]) = {}
          /\ out # None /\ Len(out) > 0 /\ out[Len(out)] = ";"

\* C6 amended: the same, for one non-walkable quadrant other than the two
\* end points (0,0) and (3,3).
C6_RouteAround ==
    /\ PathCellsFree
    /\ (ScenarioDone /\ Cardinality(Blocked(grid)) = 1
          /\ Blocked(grid) \cap {start, end} = {}) =>
          /\ IsFound(result)
          /\ Blocked(grid) \cap Range(result[2]) = {}
          /\ out # None /\ Len(out) > 0 /\ out[Len(out)] = ";"

\* The scenario ended with the quadrant (1,0), next to the start in the
\* first direction tried, non-walkable.
C6_Witness ==
    ScenarioDone /\ Blocked(grid) = {<<1, 0>>} /\ out # None

\* A number that every step of find_path makes smaller.
Measure ==
    LET n == IF pc = "fp_build" THEN 4 * width * height
             ELSE IF grid = <<>> THEN 0 ELSE Len(grid) * Len(grid[1])
        seen == IF pc \in {"fp_build", "bfs_enter"} \/ prev = <<>> THEN 0
                ELSE Cardinality(DOMAIN prev)
    IN CASE pc = "fp_build"     -> 3 * n + 6
         [] pc = "bfs_enter"    -> 3 * n + 5
         [] pc = "bfs_loop"     -> n + 3 + 2 * (n - seen) + Len(queue)
         [] pc = "reconstruct"  -> 2 + seen - Len(path_coords)
         [] pc = "bfs_returned" -> 1
         [] OTHER               -> 0

\* C7: for every grid, start and end the search loop of _bfs_find_path
\* terminates (every step makes the natural number Measure smaller and a
\* step is possible until find_path has returned) and ends in one of two
\* outcomes, a path or None, never an exception; an unreachable target
\* gives None.
C7_Terminates ==
    /\ [][Measure' < Measure]_vars
    /\ [](Measure >= 0)
    /\ [](pc # "done" => ENABLED Next)
    /\ [](Returned => (result = None \/ IsFound(result)))
    /\ []((Returned /\ ~EarlyNone(grid, start, end)
             /\ ShortestLen(grid, start, end) = -1) => result = None)

\* The search loop ran until the queue was empty: the target is walkable
\* and unreachable, and cells other than start were visited.
C7_Witness ==
    /\ Returned /\ result = None
    /\ ~EarlyNone(grid, start, end)
    /\ Cardinality(DOMAIN prev) >= 3

\* build_quadrant_walkability has returned in dump_minimal_map.
GridBuilt == pc \in {"dmm_scan", "dmm_scanned"}

\* C8: the grid returned by build_quadrant_walkability has exactly height*2
\* rows and every row has exactly width*2 columns, whatever the tile map
\* holds and however many blocks were loaded.
C8_GridDimensions ==
    GridBuilt =>
        /\ Len(grid) = height * 2
        /\ \A y \in 1..Len(grid) : Len(grid[y]) = width * 2

\* A grid was built for a map two blocks wide and high whose tile map
\* refers to a block that was not loaded.
C8_Witness ==
    /\ GridBuilt /\ width >= 2 /\ height >= 2
    /\ \E i \in 1..Len(map_data) : map_data[i] >= Len(blocks)

\* The positions of the representative subtiles: row qr, column qc.
RepresentativePos == << <<4, 6>>, <<12, 14>> >>

\* C9: for every block cell (bx,by) whose block is loaded and every quadrant
\* (qr,qc), grid[by*2+qr][bx*2+qc] is true exactly when the subtile at
\* position 4, 6, 12 or 14 (for (0,0), (0,1), (1,0), (1,1)) belongs to the
\* collision set, whatever the other subtiles of the block are.
C9_RepresentativeSubtile ==
    GridBuilt =>
        \A bx \in 0..(width - 1), by \in 0..(height - 1) :
            LET bidx == map_data[by * width + bx + 1]
            IN bidx < Len(blocks) =>
                 \A qr \in {0, 1}, qc \in {0, 1} :
                     grid[by * 2 + qr + 1][bx * 2 + qc + 1]
                       = (blocks[bidx + 1][RepresentativePos[qr + 1][qc + 1] + 1]
                            \in walkable_tiles)

\* A grid was built from a loaded block with a walkable quadrant one of
\* whose other three subtiles is not in the collision set.
C9_Witness ==
    /\ GridBuilt
    /\ \E bx \in 0..(width - 1), by \in 0..(height - 1) :
          LET bidx == map_data[by * width + bx + 1]
          IN /\ bidx < Len(blocks)
             /\ \E qr \in {0, 1}, qc \in {0, 1}, i \in 1..4 :
                   /\ grid[by * 2 + qr + 1][bx * 2 + qc + 1]
                   /\ blocks[bidx + 1][QuadIndices(qc, qr)[i] + 1] \notin walkable_tiles

\* C10: every coordinate of the special quadrant set is inside the grid and
\* is a cell whose walkability value is true.
C10_SpecialSubsetWalkable ==
    pc = "dmm_scanned" =>
        \A c \in walkable_special_quadrants :
            /\ 0 <= c[1] /\ c[1] < width * 2
            /\ 0 <= c[2] /\ c[2] < height * 2
            /\ grid[c[2] + 1][c[1] + 1]

\* The scan found a special quadrant and left out a quadrant whose four
\* subtiles are all special because it is not walkable.
C10_Witness ==
    /\ pc = "dmm_scanned"
    /\ walkable_special_quadrants # {}
    /\ \E bx \in 0..(width - 1), by \in 0..(height - 1) :
          LET bidx == map_data[by * width + bx + 1]
          IN /\ bidx < Len(blocks)
             /\ \E gqx \in {0, 1}, gqy \in {0, 1} :
                   /\ AllSpecial(blocks[bidx + 1], gqx, gqy)
                   /\ <<bx * 2 + gqx, by * 2 + gqy>> \notin walkable_special_quadrants

\* The subtile IDs of the 2x2 region of quadrant (qx, qy) in a block: the
\* positions (qy*2)*4 + qx*2, that + 1, (qy*2+1)*4 + qx*2, and that + 1.
RegionIds(block, qx, qy) ==
    << block[(qy * 2) * 4 + qx * 2 + 1], block[(qy * 2) * 4 + qx * 2 + 2],
       block[(qy * 2 + 1) * 4 + qx * 2 + 1], block[(qy * 2 + 1) * 4 + qx * 2 + 2] >>

\* The number of special subtile IDs among the four of a region.
SpecialCount(ids) ==
    Cardinality({i \in 1..4 : ids[i] \in SPECIAL_FEATURE_TILE_IDS})

\* C11: a quadrant (gx,gy) is in the special quadrant set if and only if
\* its block is loaded, all 4 subtile IDs of its 2x2 region in that block are
\* members of SPECIAL_FEATURE_TILE_IDS and grid[gy][gx] is walkable; a
\* quadrant with only 1, 2 or 3 special subtiles is never in the set.
C11_SpecialIffAllFour ==
    pc = "dmm_scanned" =>
        \A gx \in 0..(width * 2 - 1), gy \in 0..(height * 2 - 1) :
            LET bidx == map_data[(gy \div 2) * width + (gx \div 2) + 1]
            IN (<<gx, gy>> \in walkable_special_quadrants)
                 <=> /\ bidx < Len(blocks)
                     /\ SpecialCount(RegionIds(blocks[bidx + 1], gx % 2, gy % 2)) = 4
                     /\ grid[gy + 1][gx + 1]

\* The scan found a special quadrant and left out a walkable quadrant with
\* exactly 3 special subtiles.
C11_Witness ==
    /\ pc = "dmm_scanned"
    /\ walkable_special_quadrants # {}
    /\ \E gx \in 0..(width * 2 - 1), gy \in 0..(height * 2 - 1) :
          LET bidx == map_data[(gy \div 2) * width + (gx \div 2) + 1]
          IN /\ bidx < Len(blocks)
             /\ SpecialCount(RegionIds(blocks[bidx + 1], gx % 2, gy % 2)) = 3
             /\ grid[gy + 1][gx + 1]
             /\ <<gx, gy>> \notin walkable_special_quadrants

\* A call of the helper fn has returned or raised.
Called(fn) == pc = "returned" /\ call[1] = fn

\* C14: gb_to_file_offset(ptr, bank) returns ptr unchanged for every
\* ptr < 0x4000, whatever the bank; for ptr >= 0x4000 and bank >= 0 it
\* returns bank * 0x4000 + (ptr - 0x4000).
C14_FileOffset ==
    Called("gb_to_file_offset") =>
        LET ptr == call[2]
            bank == call[3]
        IN /\ ptr < 16384 => ret = Ok(ptr)
           /\ (ptr >= 16384 /\ bank >= 0) => ret = Ok(bank * 16384 + (ptr - 16384))

\* A banked pointer was translated into a bank other than bank 1.
C14_Witness ==
    /\ Called("gb_to_file_offset")
    /\ call[2] >= 16384 /\ call[3] > 1
    /\ IsOk(ret) /\ ret[2] # call[2]

\* C15: read_u8(data, off) succeeds exactly when 0 <= off < len(data) and
\* then returns data[off]; read_u16(data, off) succeeds exactly when
\* 0 <= off and off + 1 < len(data) and then returns
\* data[off] + 256 * data[off+1]; every other offset raises the
\* out-of-bounds error (IndexError).
C15_BoundedReads ==
    /\ Called("read_u8") =>
          LET data == call[2]
              off == call[3]
          IN IF 0 <= off /\ off < data.len
             THEN ret = Ok(data.bytes[off])
             ELSE ret = Raised("IndexError")
    /\ Called("read_u16") =>
          LET data == call[2]
              off == call[3]
          IN IF 0 <= off /\ off + 1 < data.len
             THEN ret = Ok(data.bytes[off] + 256 * data.bytes[off + 1])
             ELSE ret = Raised("IndexError")

\* read_u16 returned a value with both bytes non-zero from the last two
\* bytes of a buffer.
C15_Witness ==
    /\ Called("read_u16")
    /\ call[3] + 2 = call[2].len
    /\ IsOk(ret) /\ ret[2] > 256 /\ ret[2] % 256 # 0

\* Bit k of the byte b.
Bit(b, k) == (b \div (2 ^ k)) % 2

\* Byte i (from 0) of the tile t, zero-padded to 16 bytes.
TileByte(t, i) == IF i < Len(t) THEN t[i + 1] ELSE 0

\* C19: decode_tile returns an 8x8 matrix with
\* pixel(r,c) = 2 * bit(7-c) of byte r+8 + bit(7-c) of byte r, every value
\* in 0..3; an all-zero tile decodes to the all-zero matrix; plane0 = 0xFF
\* with plane1 = 0x00 in every row decodes to the all-1 matrix; an input
\* shorter than 16 bytes is zero-padded and a longer one is cut to 16.
C19_DecodeTile ==
    Called("decode_tile") =>
        LET t == call[2]
            m == ret[2]
        IN /\ IsOk(ret)
           /\ Len(m) = 8
           /\ \A r \in 0..7 :
                 /\ Len(m[r + 1]) = 8
                 /\ \A c \in 0..7 :
                       /\ m[r + 1][c + 1] = 2 * Bit(TileByte(t, r + 8), 7 - c)
                                              + Bit(TileByte(t, r), 7 - c)
                       /\ m[r + 1][c + 1] \in 0..3
           /\ (\A i \in 1..Len(t) : i <= 16 => t[i] = 0)
                 => \A r \in 1..8, c \in 1..8 : m[r][c] = 0
           /\ (Len(t) >= 16 /\ \A i \in 1..16 : t[i] = (IF i <= 8 THEN 255 ELSE 0))
                 => \A r \in 1..8, c \in 1..8 : m[r][c] = 1

\* A 12-byte tile of 0xFF bytes was decoded: the rows whose plane-1 byte
\* is padding have colour 1 and the others colour 3.
C19_Witness ==
    /\ Called("decode_tile")
    /\ Len(call[2]) = 12
    /\ ret[2][1][1] = 3 /\ ret[2][8][8] = 1

\* C20: for every crop window (w,h) and anchor p the bounds
\* [p.x - w div 2, p.x + w div 2] x [p.y - h div 2, p.y + h div 2] clamped
\* per axis give a sub-grid of at most (w+1) x (h+1) cells whose left,
\* right, top and bottom all lie within the grid.
C20_CropWithinGrid ==
    Called("crop") =>
        LET w == call[3][1]
            h == call[3][2]
            gridW == call[4]
            gridH == call[5]
            left == ret[2][1]
            right == ret[2][2]
            top == ret[2][3]
            bottom == ret[2][4]
        IN /\ right - left + 1 <= w + 1
           /\ bottom - top + 1 <= h + 1
           /\ {left, right} \subseteq 0..(gridW - 1)
           /\ {top, bottom} \subseteq 0..(gridH - 1)

\* How far the loading has come.
MapLoaded ==
    \/ err = None /\ pc \notin {"open_rom", "load_map"}
    \/ pc \in {"load_tileset_header_failed", "load_collision_failed",
               "load_blocks_failed"}

HeaderLoaded ==
    \/ err = None /\ pc \notin {"open_rom", "load_map", "load_tileset_header"}
    \/ pc \in {"load_collision_failed", "load_blocks_failed"}

CollisionLoaded ==
    \/ err = None /\ pc \notin {"open_rom", "load_map", "load_tileset_header", "load_collision"}
    \/ pc = "load_blocks_failed"

BlocksLoaded ==
    err = None /\ pc \notin {"open_rom", "load_map", "load_tileset_header", "load_collision",
                             "load_blocks"}

\* The 16-bit little-endian value at an offset of the ROM image.
WordAt(o) == ByteAt(rom, o) + 256 * ByteAt(rom, o + 1)

\* Where the image puts the header and the tile map of the map: the
\* pointer table is at 0x01AE, the bank table at 0xC23D.
TablesReadable == 430 + map_id * 2 + 1 < rom.len /\ 49725 + map_id < rom.len
HeaderBank == ByteAt(rom, 49725 + map_id)
HeaderOff == FileOffsetOf(WordAt(430 + map_id * 2), HeaderBank)
TileMapOff == FileOffsetOf(WordAt(HeaderOff + 3), HeaderBank)
HeaderReadable ==
    /\ TablesReadable
    /\ HeaderBank < rom.len \div 16384
    /\ HeaderOff + 5 <= rom.len

\* The bytes of the image from TileMapOff on, at most n of them.
TileMapAvailable(n) ==
    IF TileMapOff >= rom.len THEN 0
    ELSE IF rom.len - TileMapOff < n THEN rom.len - TileMapOff
    ELSE n

\* C12: the tile map returned by load_map has exactly width*height bytes:
\* its prefix is the bytes the ROM holds from the tile-map offset on and the
\* rest is 0x00 padding; a ROM too short for the full tile map never makes
\* load_map fail, also when the tile-map offset lies at or beyond the ROM
\* end.
C12_TileMapPadded ==
    /\ MapLoaded =>
          /\ Len(map_data) = width * height
          /\ \A i \in 1..(width * height) :
                map_data[i] = IF i <= TileMapAvailable(width * height)
                              THEN ByteAt(rom, TileMapOff + i - 1)
                              ELSE 0
    /\ (HeaderReadable /\ ByteAt(rom, HeaderOff + 1) > 0
           /\ ByteAt(rom, HeaderOff + 2) > 0) => pc # "load_map_failed"

\* load_map returned a tile map whose first bytes are the last bytes of the
\* ROM, one of them non-zero, and whose other bytes are padding.
C12_Witness ==
    /\ pc = "load_tileset_header"
    /\ TileMapAvailable(width * height) \in 1..(width * height - 1)
    /\ map_data[1] # 0

\* C13: load_map reads the 5-byte header in the order tilesetId, height,
\* width, tileMapPtr (u16), so a 3-wide, 2-high map comes out with width 3
\* and height 2; it fails when the width or the height is 0.
C13_HeaderOrder ==
    /\ MapLoaded =>
          /\ tileset_id = ByteAt(rom, HeaderOff)
          /\ height = ByteAt(rom, HeaderOff + 1)
          /\ width = ByteAt(rom, HeaderOff + 2)
          /\ width > 0 /\ height > 0
          /\ TileMapOff < rom.len => map_data[1] = ByteAt(rom, TileMapOff)
    /\ (pc \in {"load_tileset_header", "load_map_failed"} /\ HeaderReadable
           /\ (ByteAt(rom, HeaderOff + 1) = 0 \/ ByteAt(rom, HeaderOff + 2) = 0))
          => pc = "load_map_failed" /\ IsRaised(err)

\* load_map returned a map that is wider than high, from a header whose
\* tile-map pointer has two different bytes.
C13_Witness ==
    /\ pc = "load_tileset_header"
    /\ width > height
    /\ ByteAt(rom, HeaderOff + 3) # ByteAt(rom, HeaderOff + 4)
    /\ map_data[1] # 0

\* The bank byte of the header of the loaded tileset: the table is at
\* 0xC7BE and its entries have 12 bytes.
TilesetBank == ByteAt(rom, 51134 + tileset_id * 12)

\* C16: load_map fails whenever the bank byte of the map is
\* >= len(rom) div 0x4000, and load_tileset_header fails whenever the bank
\* byte of the tileset is.
C16_BankChecked ==
    /\ (pc \in {"load_tileset_header", "load_map_failed"} /\ TablesReadable
           /\ HeaderBank >= rom.len \div 16384)
          => pc = "load_map_failed" /\ IsRaised(err)
    /\ (pc \in {"load_collision", "load_tileset_header_failed"}
           /\ 51134 + tileset_id * 12 < rom.len
           /\ TilesetBank >= rom.len \div 16384)
          => pc = "load_tileset_header_failed" /\ IsRaised(err)

\* load_tileset_header failed on a readable header whose bank is the
\* number of banks of the ROM.
C16_Witness ==
    /\ pc = "load_tileset_header_failed"
    /\ 51134 + tileset_id * 12 + 12 <= rom.len
    /\ TilesetBank = rom.len \div 16384

\* The offset of the collision list, and the offset where its reading
\* stops: the first 0xFF from there on, or the end of the ROM.
CollisionOff == FileOffsetOf(tileset_header[4], tileset_header[1])
CollisionStop ==
    CHOOSE i \in CollisionOff..rom.len :
        /\ i = rom.len \/ ByteAt(rom, i) = 255
        /\ \A j \in CollisionOff..(i - 1) : ByteAt(rom, j) # 255

BlocksOff == FileOffsetOf(tileset_header[2], tileset_header[1])
BlocksAsked == MaxOf(map_data) + 1
BlocksHeld == IF BlocksOff >= rom.len THEN 0 ELSE (rom.len - BlocksOff) \div 16

\* The cells of the tile map whose block was not loaded have all four
\* quadrants non-walkable.
MissingBlocksBlocked ==
    \A by \in 0..(height - 1), bx \in 0..(width - 1) :
        map_data[by * width + bx + 1] >= Len(blocks) =>
            \A qr \in 0..1, qc \in 0..1 : ~grid[by * 2 + qr + 1][bx * 2 + qc + 1]

\* The block loader has run, on a ROM that cannot supply the blocks asked.
BlocksShort ==
    /\ HeaderLoaded
    /\ pc \notin {"load_collision", "load_collision_failed", "load_blocks"}
    /\ BlocksHeld < BlocksAsked

\* C18 as stated: whenever the ROM cannot supply max(tileMap)+1 blocks from
\* the translated blocks offset, the block loader does not fail and loads
\* as many blocks as the ROM holds.
C18_TruncatedBlocks_AsStated ==
    BlocksShort => pc # "load_blocks_failed" /\ Len(blocks) = BlocksHeld

\* C18: when the ROM cannot supply max(tileMap)+1 blocks from the
\* translated blocks offset and that offset lies inside the ROM, the block
\* loader does not fail: it loads as many whole blocks as the ROM holds,
\* every cell of the tile map whose index is beyond them has all four
\* quadrants non-walkable, and grid building and pathfinding complete
\* without an exception.
C18_TruncatedBlocks ==
    (BlocksShort /\ BlocksOff < rom.len) =>
        /\ pc # "load_blocks_failed"
        /\ err = None
        /\ Len(blocks) = BlocksHeld
        /\ pc \notin {"fp_build", "load_blocks_failed"} =>
              /\ Len(grid) = height * 2
              /\ MissingBlocksBlocked
        /\ ~IsRaised(result)
        /\ pc = "done" => out = None \/ out[Len(out)] = ";"
        /\ pc # "done" => ENABLED NextRom

\* find_path ended on a ROM that holds fewer blocks than the tile map asks
\* for, with a block loaded, a cell of the map left without its block and
\* a walkable quadrant in another cell.
C18_Witness ==
    /\ pc = "done"
    /\ BlocksLoaded
    /\ Len(blocks) \in 1..(BlocksAsked - 1)
    /\ \E i \in 1..Len(map_data) : map_data[i] >= Len(blocks)
    /\ \E y \in 1..Len(grid), x \in 1..Len(grid[1]) : grid[y][x]

\* C21: in the minimal raster every grid cell is filled with exactly one
\* of three colours: orange if the cell is in the special set and walkable,
\* otherwise white if walkable, otherwise black; a non-walkable cell is
\* never white or orange.
C21_RasterColours ==
    pc = "dmm_filled" =>
        /\ Len(img) = Len(grid)
        /\ \A y \in 1..Len(grid) :
              /\ Len(img[y]) = Len(grid[y])
              /\ \A x \in 1..Len(grid[y]) :
                    /\ img[y][x] \in {<<255, 165, 0>>, <<255, 255, 255>>, <<0, 0, 0>>}
                    /\ img[y][x] =
                          IF <<x - 1, y - 1>> \in walkable_special_quadrants /\ grid[y][x]
                          THEN <<255, 165, 0>>
                          ELSE IF grid[y][x] THEN <<255, 255, 255>>
                          ELSE <<0, 0, 0>>
                    /\ ~grid[y][x] => img[y][x] = <<0, 0, 0>>

\* A raster was drawn with an orange cell and a black cell whose four
\* subtiles are all special.
C21_Witness ==
    /\ pc = "dmm_filled"
    /\ \E y1, y2 \in 1..Len(img) : \E x1, x2 \in 1..Len(img[1]) :
          LET bidx == map_data[((y2 - 1) \div 2) * width + ((x2 - 1) \div 2) + 1]
          IN /\ img[y1][x1] = <<255, 165, 0>>
             /\ img[y2][x2] = <<0, 0, 0>>
             /\ bidx < Len(blocks)
             /\ SpecialCount(RegionIds(blocks[bidx + 1], (x2 - 1) % 2, (y2 - 1) % 2)) = 4

\* The moves in the order Right, Left, Down, Up.
TieBreakOrder == << <<1, 0, "R">>, <<-1, 0, "L">>, <<0, 1, "D">>, <<0, -1, "U">> >>

\* Among the shortest routes of n moves from c to e, the one that takes at
\* each cell the first move of TieBreakOrder that a shortest route takes.
RECURSIVE FirstRoute(_, _, _, _)
FirstRoute(g, c, e, n) ==
    IF n = 0 THEN <<>>
    ELSE LET Next1(i) == <<c[1] + TieBreakOrder[i][1], c[2] + TieBreakOrder[i][2]>>
             Good(i) == /\ InBounds(g, Next1(i)[1], Next1(i)[2])
                        /\ Cell(g, Next1(i)[1], Next1(i)[2])
                        /\ ShortestLen(g, Next1(i), e) = n - 1
             i == CHOOSE k \in 1..4 : Good(k) /\ \A j \in 1..(k - 1) : ~Good(j)
         IN <<TieBreakOrder[i][3]>> \o FirstRoute(g, Next1(i), e, n - 1)

\* The grid has no blocked cell.
FullyWalkable(g) == \A y \in 1..Len(g), x \in 1..Len(g[1]) : g[y][x]

\* C22: among several shortest routes _bfs_find_path returns the one fixed
\* by the expansion order Right, Left, Down, Up, so the actions are a
\* function of (grid, start, end): from (0,0) to (1,1) on a fully walkable
\* grid they are "RD".  In the loop the queue is first-in first-out and a
\* predecessor, once recorded, is never overwritten.
C22_TieBreak ==
    /\ [](((Returned /\ IsFound(result)) =>
             /\ result[1] = FirstRoute(grid, start, end, Len(result[1]))
             /\ (FullyWalkable(grid) /\ start = <<0, 0>> /\ end = <<1, 1>>)
                   => result[1] = <<"R", "D">>))
    /\ [][(pc = "bfs_loop" /\ pc' = "bfs_loop") =>
             /\ \A k \in DOMAIN prev : k \in DOMAIN prev' /\ prev'[k] = prev[k]
             /\ Len(queue') >= Len(queue) - 1
             /\ SubSeq(queue', 1, Len(queue) - 1) = Tail(queue)
             /\ \A i \in Len(queue)..Len(queue') :
                   /\ queue'[i] \notin DOMAIN prev
                   /\ prev'[queue'[i]][1] = Head(queue)[1]
                   /\ prev'[queue'[i]][2] = Head(queue)[2]]_vars

\* A path was returned between two cells that differ in both coordinates,
\* with no blocked cell in the grid: there are several shortest routes.
C22_Witness ==
    /\ Returned /\ IsFound(result)
    /\ FullyWalkable(grid)
    /\ start[1] # end[1] /\ start[2] # end[2]

\* The grid with the cell of s changed from walkable to blocked or back.
FlipCell(g, s) == [g EXCEPT ![s[2] + 1][s[1] + 1] = ~@]

\* C23: a non-walkable start does not stop the search: for start # end the
\* result of _bfs_find_path is the same whether the in-bounds start cell is
\* walkable or not, and a returned path begins at start.
C23_StartNotChecked ==
    (/\ Returned
     /\ grid # <<>> /\ grid[1] # <<>>
     /\ InBounds(grid, start[1], start[2])
     /\ start # end) =>
        /\ result = bfs_find_path(FlipCell(grid, start), start, end)
        /\ IsFound(result) => result[2][1] = start

\* A path of at least two moves was returned from a non-walkable start.
C23_Witness ==
    /\ Returned /\ IsFound(result)
    /\ ~Cell(grid, start[1], start[2])
    /\ Len(result[1]) >= 2

\* The ROM ends inside one of the blocks the tile map asks for.
BlockCutShort ==
    /\ BlocksOff < rom.len
    /\ (rom.len - BlocksOff) % 16 # 0
    /\ BlocksHeld < BlocksAsked

\* C24 as stated: the loaded blocks are those of the indices
\* 0 .. max(tileMap) clamped to the ROM space, each of 16 bytes, and a block
\* cut short by the ROM end is loaded, right-padded with 0x00.
C24_BlockList_AsStated ==
    BlocksLoaded =>
        /\ \A k \in 1..Len(blocks) : Len(blocks[k]) = 16
        /\ Len(blocks) = IF BlockCutShort THEN BlocksHeld + 1
                         ELSE IF BlocksHeld < BlocksAsked THEN BlocksHeld
                         ELSE BlocksAsked
        /\ \A k \in 1..Len(blocks), i \in 1..16 :
              blocks[k][i] = IF BlocksOff + (k - 1) * 16 + i - 1 < rom.len
                             THEN ByteAt(rom, BlocksOff + (k - 1) * 16 + i - 1)
                             ELSE 0

\* C24: the block loader loads the blocks with indices 0 .. max(tileMap),
\* clamped to the whole 16-byte blocks the ROM holds from the translated
\* blocks offset; every loaded block has exactly 16 bytes, all of them read
\* from the ROM; a block cut short by the ROM end is not loaded, so no
\* loaded block is padded.
C24_BlockList ==
    BlocksLoaded =>
        /\ Len(blocks) = IF BlocksHeld < BlocksAsked THEN BlocksHeld ELSE BlocksAsked
        /\ \A k \in 1..Len(blocks) :
              /\ Len(blocks[k]) = 16
              /\ BlocksOff + k * 16 <= rom.len
              /\ \A i \in 1..16 :
                    blocks[k][i] = ByteAt(rom, BlocksOff + (k - 1) * 16 + i - 1)

\* The blocks were loaded from a ROM that ends inside the second block the
\* tile map asks for: the first is loaded, the second is not.
C24_Witness ==
    /\ BlocksLoaded
    /\ BlockCutShort
    /\ Len(blocks) = 1
    /\ BlocksAsked = 2

\* The tile-graphics loader was called; the offset of the tiles, the room
\* for whole tiles from there on and the highest tile ID referenced by the
\* blocks and the collision list.
TilesCalled == Called("load_tile_graphics") \/ Called("main_tile_graphics")
TilesOff == FileOffsetOf(call[3], call[4])
TilesAvailable == (call[2].len - TilesOff) \div 16
HighestTileId ==
    LET ids == {0} \cup {call[6][i] : i \in 1..Len(call[6])}
                   \cup UNION {{call[5][k][i] : i \in 1..Len(call[5][k])} :
                                  k \in 1..Len(call[5])}
    IN CHOOSE m \in ids : \A t \in ids : t <= m

\* The tiles returned are n records of 16 bytes, read from the ROM.
TilesAre(n) ==
    /\ IsOk(ret)
    /\ Len(ret[2]) = n
    /\ \A k \in 1..Len(ret[2]) :
          /\ Len(ret[2][k]) = 16
          /\ \A i \in 1..16 :
                ret[2][k][i] = ByteAt(call[2], TilesOff + (k - 1) * 16 + i - 1)

\* C25 as stated: load_tile_graphics loads exactly
\* min(available, max(highestReferencedTileId + 1, 128)) tile records of 16
\* bytes, and the loaded tiles always include the base 128 tiles.
C25_TileCount_AsStated ==
    (TilesCalled /\ IsOk(ret)) =>
        /\ TilesAre(Min2(TilesAvailable, Max2(HighestTileId + 1, 128)))
        /\ Len(ret[2]) >= 128

\* C25: for a tile offset inside the ROM, load_tile_graphics loads exactly
\* min(available, max(highestReferencedTileId + 1, 128)) tile records of 16
\* bytes each, available being floor((len(rom) - tileOffset) / 16); the
\* loaded tiles include the base 128 tiles whenever available >= 128.  For
\* a tile offset at or beyond the ROM end it raises ValueError.
C25_TileCount ==
    TilesCalled =>
        IF TilesOff < call[2].len
        THEN /\ TilesAre(Min2(TilesAvailable, Max2(HighestTileId + 1, 128)))
             /\ TilesAvailable >= 128 => Len(ret[2]) >= 128
        ELSE ret = Raised("ValueError")

\* The tiles were loaded from a ROM with room for 127 tiles only.
C25_Witness ==
    /\ TilesCalled
    /\ IsOk(ret)
    /\ TilesAvailable = 127
    /\ Len(ret[2]) = 127

\* C26: the engine operations are pure: no step of the loaders, of
\* build_quadrant_walkability or of _bfs_find_path changes the ROM buffer,
\* and none changes the tile map, the collision set, the block list or the
\* grid once it is loaded or built; the request is left alone as well, and
\* running find_path again on the same ROM and request gives the result the
\* run gave.
C26_Pure ==
    /\ [][/\ rom_path' = rom_path
          /\ pc # "open_rom" => rom' = rom
          /\ map_id' = map_id /\ start' = start /\ end' = end
          /\ pc # "load_map" => (width' = width /\ height' = height
                                 /\ map_data' = map_data)
          /\ pc # "load_collision" => walkable_tiles' = walkable_tiles
          /\ pc # "load_blocks" => blocks' = blocks
          /\ pc # "fp_build" => grid' = grid]_vars
    /\ [](pc = "bfs_returned" => result = bfs_find_path(grid, start, end))
    /\ [](pc = "done" => out = find_path(rom_path, map_id, start, end, impl))

\* A run over a loaded map ended with a route, after the search expanded
\* cells.
C26_Witness ==
    /\ pc = "done"
    /\ BlocksLoaded
    /\ out # None
    /\ Len(out) > 2
    /\ Cardinality(DOMAIN prev) > 2

\* The cells not yet seen, counted twice, plus the cells waiting in the
\* queue: the variant of the loop "while queue".
LoopVariant == 2 * (Rows(grid) * Cols(grid) - Cardinality(DOMAIN prev)) + Len(queue)

\* C27: _bfs_find_path is complete.  For an in-bounds start and an
\* in-bounds walkable end it returns None only if no 4-connected route
\* through walkable cells leads from start to end, and a path if there is
\* such a route; the call is never stuck before it returns, every iteration
\* of the search loop lowers a natural-number variant and every iteration
\* of the reconstruction lengthens a path of at most rows*cols cells, so
\* the call returns.
C27_Complete ==
    /\ []((/\ Returned /\ grid # <<>> /\ grid[1] # <<>>
           /\ InBounds(grid, start[1], start[2])
           /\ InBounds(grid, end[1], end[2])
           /\ Cell(grid, end[1], end[2])) =>
             /\ result = None => ShortestLen(grid, start, end) = -1
             /\ ShortestLen(grid, start, end) >= 0 => IsFound(result))
    /\ [](pc \in {"bfs_enter", "bfs_loop", "reconstruct"} =>
             ENABLED (BfsEnter \/ BfsIterate \/ BfsExhausted \/ BfsReconstruct
                        \/ BfsReturn))
    /\ [][(pc = "bfs_loop" /\ pc' = "bfs_loop") =>
             (LoopVariant' < LoopVariant /\ LoopVariant' >= 0)]_vars
    /\ [][(pc = "reconstruct" /\ pc' = "reconstruct") =>
             /\ Len(path_coords') = Len(path_coords) + 1
             /\ Len(path_coords') < Rows(grid) * Cols(grid)]_vars

\* The search looked at cells beyond start and returned None for a walkable
\* target that walls cut off.
C27_Witness ==
    /\ Returned /\ grid # <<>> /\ grid[1] # <<>>
    /\ InBounds(grid, start[1], start[2])
    /\ InBounds(grid, end[1], end[2])
    /\ Cell(grid, end[1], end[2])
    /\ result = None
    /\ Cardinality(DOMAIN prev) > 1

\* A str of the letters of the moves and of ";".
IsMoveString(v) ==
    /\ v # <<>>
    /\ \A i \in 1..Len(v) : v[i] \in {"R", "L", "D", "U", ";"}

\* find_path ended because the ROM file could not be read, because a
\* loader raised, or because the search gave no path.
OpenFailed == pc = "done" /\ IsRaised(rom_path)
StructuralError == pc = "done" /\ ~IsRaised(rom_path) /\ IsRaised(err)
PathNotFound == pc = "done" /\ err = None /\ result = None

\* C28: find_path never propagates an exception.  Whatever was raised by
\* reading the file, by a loader or by the search, the call goes on to its
\* return; its outcome is None or a string, and
\* it is None for an unreadable ROM file, a map ID outside the tables, an
\* invalid bank, zero dimensions, a collision or blocks pointer outside the
\* ROM and an unreachable target alike, so that the result does not tell a
\* structural ROM error from PathNotFound.
C28_NeverRaises ==
    /\ pc \notin {"done", "load_map", "load_tileset_header", "load_collision",
                 "load_blocks"} =>
          ENABLED (OpenRom \/ FindPathExcept \/ FindPathBuild \/ BfsEnter
                     \/ BfsIterate \/ BfsExhausted \/ BfsReconstruct \/ BfsReturn
                     \/ FindPathReturn)
    /\ IsRaised(err) =>
          pc \in {"done", "open_failed", "load_map_failed",
                  "load_tileset_header_failed", "load_collision_failed",
                  "load_blocks_failed"}
    /\ pc = "done" =>
          /\ out = None \/ IsMoveString(out)
          /\ (OpenFailed \/ StructuralError \/ PathNotFound) => out = None
          /\ IsRaised(rom_path) => OpenFailed /\ out = None
          /\ (~IsRaised(rom_path) /\ ~TablesReadable) => StructuralError
          /\ (~IsRaised(rom_path) /\ TablesReadable
                 /\ HeaderBank >= rom.len \div 16384) => StructuralError
          /\ (~IsRaised(rom_path) /\ HeaderReadable
                 /\ (ByteAt(rom, HeaderOff + 1) = 0 \/ ByteAt(rom, HeaderOff + 2) = 0))
                => StructuralError
          /\ (Len(tileset_header) = 5
                 /\ (CollisionOff >= rom.len \/ BlocksOff >= rom.len))
                => StructuralError
          /\ (BlocksLoaded /\ ShortestLen(grid, start, end) = -1) => PathNotFound

\* find_path returned None for a ROM file that could not be read.
C28_Witness == OpenFailed /\ out = None

\* The search loop of _bfs_find_path has begun.
Searching == pc \in {"bfs_loop", "reconstruct"} \/ (Returned /\ DOMAIN prev # {})

\* The number of predecessor steps from the key c to the key without
\* predecessor, -1 when more than n steps would be needed or a step leaves
\* the keys.
RECURSIVE ChainLen(_, _, _)
ChainLen(pv, c, n) ==
    IF c \notin DOMAIN pv THEN -1
    ELSE IF pv[c] = None THEN 0
    ELSE IF n = 0 THEN -1
    ELSE LET r == ChainLen(pv, <<pv[c][1], pv[c][2]>>, n - 1)
         IN IF r = -1 THEN -1 ELSE r + 1

\* The cells taken from the queue so far: every key was queued once.
Dequeued == Cardinality(DOMAIN prev) - Len(queue)

\* C29: in every state of the BFS loop of _bfs_find_path each coordinate
\* is put in the queue at most once (the queue has no coordinate twice, a
\* coordinate is queued only when it is no key of the predecessor map, and
\* keys are never removed), every queued coordinate is a key of the
\* predecessor map, every key other than start is an in-bounds walkable
\* cell, and following predecessors from any key reaches start, the only
\* key without predecessor, in fewer steps than there are keys; every
\* iteration dequeues one cell, at most rows*cols cells are dequeued, and a
\* returned path never contains the same coordinate twice.
C29_LoopInvariant ==
    /\ [](Searching =>
            /\ \A i, j \in 1..Len(queue) : queue[i] = queue[j] => i = j
            /\ Range(queue) \subseteq DOMAIN prev
            /\ start \in DOMAIN prev /\ InBounds(grid, start[1], start[2])
            /\ \A k \in DOMAIN prev :
                  /\ k # start => (InBounds(grid, k[1], k[2]) /\ Cell(grid, k[1], k[2]))
                  /\ prev[k] = None <=> k = start
                  /\ ChainLen(prev, k, Cardinality(DOMAIN prev) - 1) >= 0
            /\ Dequeued >= 0
            /\ Dequeued <= Rows(grid) * Cols(grid))
    /\ [](IsFound(result) =>
            \A i, j \in 1..Len(result[2]) : result[2][i] = result[2][j] => i = j)
    /\ [][pc = "bfs_loop" =>
            /\ DOMAIN prev \subseteq DOMAIN prev'
            /\ \A i \in 1..Len(queue') :
                  queue'[i] \in Range(queue) \/ queue'[i] \notin DOMAIN prev
            /\ pc' # "bfs_returned" => Dequeued' = Dequeued + 1]_vars

\* The search looked at every cell of a grid of six cells: rows*cols cells
\* were dequeued.
C29_Witness ==
    /\ Searching
    /\ Rows(grid) * Cols(grid) = 6
    /\ Dequeued = 6

\* Two outcomes of a loader are the same: both are failures, or both are
\* the same value.
SameOutcome(a, b) ==
    IF IsRaised(a) \/ IsRaised(b) THEN IsRaised(a) /\ IsRaised(b) ELSE a = b

\* C30: the loaders of rom.py and the loading code of dump.py are
\* equivalent.  On the ROM buffer and map ID of the run, load_map of both
\* files return the same values or both fail, and so do load_tileset_header
\* of both files on the tileset ID read; load_collision_data and
\* load_block_data return the collision set and the block list of the
\* inline loops of dump.find_path or fail with them; so find_path gives the
\* same outcome with the loaders of either file.
C30_LoadersEquivalent ==
    /\ pc = "load_map" => SameOutcome(rom_load_map(rom, map_id), load_map(rom, map_id))
    /\ pc = "load_tileset_header" =>
          SameOutcome(rom_load_tileset_header(rom, tileset_id),
                      load_tileset_header(rom, tileset_id))
    /\ pc = "load_collision" =>
          SameOutcome(load_collision_data(rom, tileset_header[4], tileset_header[1]),
                      FindPathCollision(rom, tileset_header[4], tileset_header[1]))
    /\ pc = "load_blocks" =>
          SameOutcome(load_block_data(rom, tileset_header[2], tileset_header[1],
                                      map_data),
                      FindPathBlocks(rom, tileset_header[2], tileset_header[1],
                                     map_data))
    /\ pc = "done" =>
          find_path(rom_path, map_id, start, end, "rom")
            = find_path(rom_path, map_id, start, end, "dump")

\* The loaders of rom.py were run on a ROM that ends inside the tile map
\* and inside the blocks: the tile map was padded and the block list cut
\* short.
C30_Witness ==
    /\ impl = "rom"
    /\ pc = "fp_build"
    /\ TileMapAvailable(width * height) < width * height
    /\ Len(blocks) < BlocksAsked

====
